---------------------------- MODULE Spec2Model ----------------------------
(***************************************************************************)
(* Model of the detection-engine lifecycle and live-reload controller of   *)
(* src/src/suricata/src/detect-engine.c: the reload sync latch             *)
(* (detect_sync), the master registry of engine contexts (active list,     *)
(* free list, reference counts) and DetectEngineReload /                   *)
(* DetectEngineReloadThreads running against the packet workers.           *)
(*                                                                         *)
(* Pointers are small integers, NULL is 0.  An engine context (snapshot)   *)
(* is an element of Snap, a thread context an element of Ctx.              *)
(***************************************************************************)
EXTENDS Integers, Sequences, FiniteSets, TLC

\* ---- bounds of the model ------------------------------------------------
NLatchThreads == 2
NWorkers == 2
MaxSnap == 3
MaxExtRef == 1
NCallers == 2
MaxCalls == 2
MaxRegs == 2
MaxKeywords == 3

\* ---- program constants --------------------------------------------------
NULL == 0
\* ref_cnt is a uint32_t.  A counter value v is written as the 32-bit
\* pattern read as a signed number: v itself below 2^31 and v - 2^32 from
\* 2^31 on, so that the value 0xFFFFFFFF a decrement of 0 wraps to is -1.
INT32_MAX == 2147483647
INT32_MIN == -2147483647 - 1

IDLE == "IDLE"
RELOAD == "RELOAD"
DONE == "DONE"

LThreads == 1..NLatchThreads
Workers == 1..NWorkers
Snap == 1..MaxSnap
Ctx == 1..(NWorkers * MaxSnap)
Callers == 1..NCallers

VARIABLES
    \* sync latch (detect_sync) and the threads calling its four operations
    sync_state, sync_m, lpc, lop, lret, lpre, h_done_taken, h_req_ok,
    \* master registry (g_master_de_ctx) and the engine contexts
    list, free_list, next, ref_cnt, de_state, pending, ext_ref, aborted,
    \* thread contexts, worker slots and workers
    ctx_state, ctx_de, ctx_used, slot_data, tm_detect, wpc, wcur,
    running_done, inq, suricata_ctl_flags, tv_root_lock,
    \* control thread: DetectEngineReload / DetectEngineReloadThreads
    rpc, old_de_ctx, new_de_ctx, no_of_detect_tvs, i, tvi,
    old_det_ctx, new_det_ctx, detect_tvs, pseudo_pkt_inserted,
    threads_ret, reload_ret, g,
    \* the last registry call of the control thread that returns an int and
    \* its result, and the threads that call the registry concurrently: the
    \* holder of master->lock, and per thread its position, the value it has
    \* loaded, the engine context it works on and the reference it was given
    api_op, api_ret, master_lock, cpc, ctmp, carg, cown, ncalls, h_net,
    \* the table of app inspection engines, how the process ended in a
    \* registration, the last registration that returned and the number
    \* of registrations made
    app_inspection_engine, exited, reg_arg, reg_ret, nregs,
    \* the thread keyword registry of an engine context (keyword_list,
    \* keyword_id), the last registration and its result; the keyword array
    \* of a thread context of that engine, how its initialisation returned
    \* and whether an InitFunc returned NULL in it; the last retrieval, its
    \* result and the index it read (-1: the array was not read)
    keyword_list, keyword_id, kw_arg, kw_ret, keyword_ctxs_array,
    keyword_ctxs_size, init_ret, h_init_null, get_arg, get_ret, get_idx,
    \* the configuration DetectEngineCtxInitReal was called with and the
    \* engine context it built from it
    conf, de_cfg

latchVars == <<sync_state, sync_m, lpc, lop, lret, lpre, h_done_taken, h_req_ok>>
masterVars == <<list, free_list, next, ref_cnt, de_state, pending, ext_ref, aborted>>
workerVars == <<ctx_state, ctx_de, ctx_used, slot_data, tm_detect, wpc, wcur,
                running_done, inq, suricata_ctl_flags, tv_root_lock>>
reloadVars == <<rpc, old_de_ctx, new_de_ctx, no_of_detect_tvs, i, tvi,
                old_det_ctx, new_det_ctx, detect_tvs, pseudo_pkt_inserted,
                threads_ret, reload_ret, g>>
threadVars == <<master_lock, cpc, ctmp, carg, cown, ncalls, h_net>>
callerVars == <<api_op, api_ret, threadVars>>
registerVars == <<app_inspection_engine, exited, reg_arg, reg_ret, nregs>>
keywordVars == <<keyword_list, keyword_id, kw_arg, kw_ret, keyword_ctxs_array,
                 keyword_ctxs_size, init_ret, h_init_null, get_arg, get_ret,
                 get_idx>>
confVars == <<conf, de_cfg>>
vars == <<latchVars, masterVars, workerVars, reloadVars, callerVars,
          registerVars, keywordVars, confVars>>

(***************************************************************************)
(* Sync latch: detect-engine.c 429-488.  Each operation locks              *)
(* detect_sync.m, runs its body and unlocks.  A caller thread is "out"     *)
(* (not in a call), "wait" (blocked in SCMutexLock) or "in" (holds m).     *)
(***************************************************************************)
LatchOps == {"Start", "IsStart", "SetDone", "IsDone"}

LatchCall(t, op) ==
    /\ lpc[t] = "out"
    /\ lpc' = [lpc EXCEPT ![t] = "wait"]
    /\ lop' = [lop EXCEPT ![t] = op]
    /\ lret' = [lret EXCEPT ![t] = 0]
    /\ UNCHANGED <<sync_state, sync_m, lpre, h_done_taken, h_req_ok>>

SCMutexLock_sync(t) ==
    /\ lpc[t] = "wait"
    /\ sync_m = 0
    /\ sync_m' = t
    /\ lpc' = [lpc EXCEPT ![t] = "in"]
    /\ UNCHANGED <<sync_state, lop, lret, lpre, h_done_taken, h_req_ok>>

\* value written to detect_sync.state by DetectEngineReloadStart
StartNewState_Force(st) == RELOAD
StartNewState(st) == IF st = IDLE THEN RELOAD ELSE st
StartResult_Always0(st) == 0
StartResult(st) == IF st = IDLE THEN 0 ELSE -1

DetectEngineReloadStart(t) ==
    /\ lpc[t] = "in" /\ lop[t] = "Start" /\ sync_m = t
    /\ sync_state' = StartNewState(sync_state)
    /\ lret' = [lret EXCEPT ![t] = StartResult(sync_state)]
    /\ lpre' = [lpre EXCEPT ![t] = sync_state]
    /\ h_req_ok' = IF StartResult(sync_state) = 0 THEN h_req_ok + 1 ELSE h_req_ok
    /\ sync_m' = 0
    /\ lpc' = [lpc EXCEPT ![t] = "out"]
    /\ UNCHANGED <<lop, h_done_taken>>

DetectEngineReloadIsStart(t) ==
    /\ lpc[t] = "in" /\ lop[t] = "IsStart" /\ sync_m = t
    /\ lret' = [lret EXCEPT ![t] = IF sync_state = RELOAD THEN 1 ELSE 0]
    /\ lpre' = [lpre EXCEPT ![t] = sync_state]
    /\ sync_m' = 0
    /\ lpc' = [lpc EXCEPT ![t] = "out"]
    /\ UNCHANGED <<sync_state, lop, h_done_taken, h_req_ok>>

\* value written to detect_sync.state by DetectEngineReloadSetDone
SetDoneNewState_FromReload(st) == IF st = RELOAD THEN DONE ELSE st
SetDoneNewState(st) == DONE

DetectEngineReloadSetDone(t) ==
    /\ lpc[t] = "in" /\ lop[t] = "SetDone" /\ sync_m = t
    /\ sync_state' = SetDoneNewState(sync_state)
    /\ lpre' = [lpre EXCEPT ![t] = sync_state]
    \* a new Done episode starts when the latch enters DONE
    /\ h_done_taken' = IF sync_state # DONE /\ SetDoneNewState(sync_state) = DONE
                       THEN 0 ELSE h_done_taken
    /\ sync_m' = 0
    /\ lpc' = [lpc EXCEPT ![t] = "out"]
    /\ UNCHANGED <<lop, lret, h_req_ok>>

\* value written to detect_sync.state by DetectEngineReloadIsDone
IsDoneNewState_KeepDone(st) == st
IsDoneNewState(st) == IF st = DONE THEN IDLE ELSE st
IsDoneResult(st) == IF st = DONE THEN 1 ELSE 0

DetectEngineReloadIsDone(t) ==
    /\ lpc[t] = "in" /\ lop[t] = "IsDone" /\ sync_m = t
    /\ sync_state' = IsDoneNewState(sync_state)
    /\ lret' = [lret EXCEPT ![t] = IsDoneResult(sync_state)]
    /\ lpre' = [lpre EXCEPT ![t] = sync_state]
    /\ h_done_taken' = IF IsDoneResult(sync_state) = 1
                       THEN h_done_taken + 1 ELSE h_done_taken
    /\ h_req_ok' = IF IsDoneResult(sync_state) = 1 THEN 0 ELSE h_req_ok
    /\ sync_m' = 0
    /\ lpc' = [lpc EXCEPT ![t] = "out"]
    /\ UNCHANGED <<lop>>


(***************************************************************************)
(* Master registry: detect-engine.c 1574-1731.  The active list and the    *)
(* free list are intrusive singly linked lists through de_ctx->next.       *)
(***************************************************************************)
\* the nodes reachable from head h through next, as the C loops walk them
RECURSIVE Walk(_, _, _)
Walk(h, nx, fuel) ==
    IF h = NULL \/ fuel = 0 THEN <<>>
    ELSE <<h>> \o Walk(nx[h], nx, fuel - 1)

ListFrom(h) == Walk(h, next, MaxSnap + 1)
SeqSet(q) == {q[k] : k \in 1..Len(q)}
ActiveList == ListFrom(list)
FreeList == ListFrom(free_list)

\* ++ and -- on a uint32_t
Inc32(r) == IF r = INT32_MAX THEN INT32_MIN ELSE r + 1
Dec32(r) == IF r = INT32_MIN THEN INT32_MAX ELSE r - 1

\* DetectEngineCtxInit*: SCMalloc + memset(0).  The allocator hands out the
\* lowest address that is not in use; the memory of a freed engine context
\* is used again
Unused(s) == de_state[s] = "free"
FreshSnap == CHOOSE s \in Snap : Unused(s) /\ \A u \in Snap : Unused(u) => s <= u
CanAlloc == \E s \in Snap : Unused(s)

\* DetectEngineAddToList(instance), instance # NULL
AddToList_next_Drop(instance) == next
AddToList_next(instance) ==
    IF list = NULL THEN next ELSE [next EXCEPT ![instance] = list]

\* DetectEngineAddToMaster(de_ctx): the return value and the list it leaves
AddToMaster_NoLink(de) == [ret |-> 0, list |-> list, next |-> next]
AddToMaster(de) ==
    IF de = NULL
    THEN [ret |-> -1, list |-> list, next |-> next]
    ELSE [ret |-> 0, list |-> de, next |-> AddToList_next(de)]

\* DetectEngineGetCurrent: the reference count after master->list->ref_cnt++
GetCurrent_ref_Keep == ref_cnt
GetCurrent_ref == IF list = NULL THEN ref_cnt ELSE [ref_cnt EXCEPT ![list] = Inc32(@)]

\* DetectEngineReference(de_ctx)
Reference_ref(s) == IF s = NULL THEN ref_cnt ELSE [ref_cnt EXCEPT ![s] = Inc32(@)]

\* DetectEngineDeReference: BUG_ON((*de_ctx)->ref_cnt == 0)
DeRefBugOn_Never(s) == FALSE
DeRefBugOn(s) == ref_cnt[s] = 0
DeReference_ref_Keep(s) == ref_cnt
DeReference_ref(s) == [ref_cnt EXCEPT ![s] = Dec32(@)]

\* DetectEngineMoveToFreeList: the search loop; yields <<prev, instance>>
\* with instance = de_ctx when found and NULL when the list is exhausted
RECURSIVE MoveSearch(_, _, _, _)
MoveSearch(prev, instance, de, fuel) ==
    IF instance = NULL \/ fuel = 0 THEN <<prev, NULL>>
    ELSE IF instance = de THEN <<prev, instance>>
    ELSE MoveSearch(instance, next[instance], de, fuel - 1)

\* the active-list head after de was found (prev = NULL: de is the head)
MoveUnlinkHead_Keep(prev, de) == list
MoveUnlinkHead(prev, de) == IF prev = NULL THEN next[de] ELSE list

\* the return value: -1 when the search ended without de_ctx
MoveResult_Always0(instance) == 0
MoveResult(instance) == IF instance = NULL THEN -1 ELSE 0

MoveToFreeList(de) ==
    LET found == MoveSearch(NULL, list, de, MaxSnap + 1)
        prev == found[1]
        instance == found[2]
    IN  IF list = NULL \/ instance = NULL
        THEN [ret |-> MoveResult(NULL), list |-> list, free_list |-> free_list,
              next |-> next]
        ELSE LET nx1 == IF prev = NULL THEN next ELSE [next EXCEPT ![prev] = next[instance]]
                 nx2 == [nx1 EXCEPT ![instance] = free_list]
             IN [ret |-> MoveResult(instance), list |-> MoveUnlinkHead(prev, de),
                 free_list |-> instance, next |-> nx2]

\* DetectEnginePruneFreeList: the loop body run from (prev, instance) on
\* st = [free_list, next, de_state]; after a node is freed the code sets
\* instance = NULL and then prev = instance
RECURSIVE PruneWalk(_, _, _, _)
PruneWalk(prev, instance, st, fuel) ==
    IF instance = NULL \/ fuel = 0 THEN st
    ELSE LET nxt == st.next[instance] IN
         IF ref_cnt[instance] = 0
         THEN PruneWalk(NULL, nxt,
                  [free_list |-> IF prev = NULL THEN nxt ELSE st.free_list,
                   next |-> IF prev = NULL THEN [st.next EXCEPT ![instance] = NULL]
                            ELSE [st.next EXCEPT ![prev] = nxt, ![instance] = NULL],
                   de_state |-> [st.de_state EXCEPT ![instance] = "free"]],
                  fuel - 1)
         ELSE PruneWalk(instance, nxt, st, fuel - 1)

PruneFreeList ==
    PruneWalk(NULL, free_list,
              [free_list |-> free_list, next |-> next, de_state |-> de_state],
              MaxSnap + 1)

\* ---- the registry operations called one at a time by the control thread;
\* api_op and api_ret hold the last call that returns an int and its result
\* until the next call is made
Quiet == rpc = "idle" /\ ~aborted

ApiCtxInit ==
    /\ Quiet /\ pending = NULL /\ CanAlloc
    /\ pending' = FreshSnap
    /\ de_state' = [de_state EXCEPT ![FreshSnap] = "live"]
    /\ next' = [next EXCEPT ![FreshSnap] = NULL]
    /\ ref_cnt' = [ref_cnt EXCEPT ![FreshSnap] = 0]
    /\ UNCHANGED <<list, free_list, ext_ref, aborted>>
    /\ api_op' = "none" /\ api_ret' = -2
    /\ UNCHANGED <<registerVars, keywordVars, confVars, latchVars, threadVars, workerVars, reloadVars>>

\* DetectEngineAddToMaster(de): de is NULL or the engine context that was
\* initialised last and is not linked yet
ApiAddToMaster(de) ==
    /\ Quiet /\ de \in {NULL, pending}
    /\ LET r == AddToMaster(de) IN
        /\ list' = r.list
        /\ next' = r.next
        /\ api_ret' = r.ret
    /\ api_op' = "AddToMaster"
    /\ pending' = IF de = NULL THEN pending ELSE NULL
    /\ UNCHANGED <<free_list, ref_cnt, de_state, ext_ref, aborted>>
    /\ UNCHANGED <<registerVars, keywordVars, confVars, latchVars, threadVars, workerVars, reloadVars>>

ApiMoveToFreeList(de) ==
    /\ Quiet /\ de_state[de] = "live"
    /\ LET r == MoveToFreeList(de) IN
        /\ list' = r.list
        /\ free_list' = r.free_list
        /\ next' = r.next
        /\ api_ret' = r.ret
    /\ api_op' = "MoveToFreeList"
    /\ UNCHANGED <<ref_cnt, de_state, pending, ext_ref, aborted>>
    /\ UNCHANGED <<registerVars, keywordVars, confVars, latchVars, threadVars, workerVars, reloadVars>>

ApiPruneFreeList ==
    /\ Quiet
    /\ LET r == PruneFreeList IN
        /\ free_list' = r.free_list
        /\ next' = r.next
        /\ de_state' = r.de_state
    /\ UNCHANGED <<list, ref_cnt, pending, ext_ref, aborted>>
    /\ api_op' = "none" /\ api_ret' = -2
    /\ UNCHANGED <<registerVars, keywordVars, confVars, latchVars, threadVars, workerVars, reloadVars>>

\* another module takes a reference on the current engine
ApiGetCurrent ==
    /\ Quiet /\ list # NULL /\ ext_ref[list] < MaxExtRef
    /\ ref_cnt' = GetCurrent_ref
    /\ ext_ref' = [ext_ref EXCEPT ![list] = @ + 1]
    /\ UNCHANGED <<list, free_list, next, de_state, pending, aborted>>
    /\ api_op' = "none" /\ api_ret' = -2
    /\ UNCHANGED <<registerVars, keywordVars, confVars, latchVars, threadVars, workerVars, reloadVars>>

\* a holder releases its reference; a release on a counter that is already
\* 0 is the under-flow the BUG_ON catches
ApiDeReference(s) ==
    /\ Quiet /\ de_state[s] = "live"
    /\ ext_ref[s] > 0 \/ ref_cnt[s] = 0
    /\ IF DeRefBugOn(s)
       THEN aborted' = TRUE /\ UNCHANGED <<ref_cnt, ext_ref>>
       ELSE /\ ref_cnt' = DeReference_ref(s)
            /\ ext_ref' = [ext_ref EXCEPT ![s] = IF @ > 0 THEN @ - 1 ELSE 0]
            /\ UNCHANGED aborted
    /\ UNCHANGED <<list, free_list, next, de_state, pending>>
    /\ api_op' = "none" /\ api_ret' = -2
    /\ UNCHANGED <<registerVars, keywordVars, confVars, latchVars, threadVars, workerVars, reloadVars>>

(***************************************************************************)
(* Threads calling the registry concurrently.  DetectEngineGetCurrent,     *)
(* DetectEngineAddToMaster and DetectEngineMoveToFreeList take             *)
(* master->lock; DetectEngineReference and DetectEngineDeReference do not. *)
(* ref_cnt++ and ref_cnt-- are a load and a store of the uint32_t.  A      *)
(* thread is "out" of any call or at the position cpc names.               *)
(***************************************************************************)
CallerUnchanged ==
    /\ UNCHANGED <<registerVars, keywordVars, confVars, latchVars, workerVars, reloadVars, api_op, api_ret>>
    /\ UNCHANGED <<pending, ext_ref>>

\* DetectEngineGetCurrent: SCMutexLock(&master->lock) (1591)
GetCurrentLock(t) ==
    /\ Quiet /\ cpc[t] = "out" /\ cown[t] = NULL /\ ncalls[t] < MaxCalls
    /\ master_lock = 0
    /\ master_lock' = t
    /\ cpc' = [cpc EXCEPT ![t] = "gc_in"]
    /\ ncalls' = [ncalls EXCEPT ![t] = @ + 1]
    /\ UNCHANGED <<ctmp, carg, cown, h_net>>
    /\ UNCHANGED <<list, free_list, next, ref_cnt, de_state, aborted>>
    /\ CallerUnchanged

\* the test of master->list and the load of master->list->ref_cnt (1593-1598)
GetCurrentLoad(t) ==
    /\ ~aborted /\ cpc[t] = "gc_in"
    /\ IF list = NULL
       THEN /\ master_lock' = 0
            /\ cpc' = [cpc EXCEPT ![t] = "out"]
            /\ carg' = [carg EXCEPT ![t] = NULL]
            /\ UNCHANGED ctmp
       ELSE /\ ctmp' = [ctmp EXCEPT ![t] = ref_cnt[list]]
            /\ carg' = [carg EXCEPT ![t] = list]
            /\ cpc' = [cpc EXCEPT ![t] = "gc_store"]
            /\ UNCHANGED master_lock
    /\ UNCHANGED <<cown, ncalls, h_net>>
    /\ UNCHANGED <<list, free_list, next, ref_cnt, de_state, aborted>>
    /\ CallerUnchanged

\* the store of master->list->ref_cnt++ and the unlock (1598-1600)
GetCurrentStore(t) ==
    /\ ~aborted /\ cpc[t] = "gc_store"
    /\ ref_cnt' = [ref_cnt EXCEPT ![carg[t]] = Inc32(ctmp[t])]
    /\ h_net' = [h_net EXCEPT ![carg[t]] = @ + 1]
    /\ master_lock' = 0
    /\ cpc' = [cpc EXCEPT ![t] = "gc_ret"]
    /\ UNCHANGED <<ctmp, carg, cown, ncalls>>
    /\ UNCHANGED <<list, free_list, next, de_state, aborted>>
    /\ CallerUnchanged

\* return master->list (1601): master->list is read after the unlock
GetCurrentReturn(t) ==
    /\ ~aborted /\ cpc[t] = "gc_ret"
    /\ cown' = [cown EXCEPT ![t] = list]
    /\ cpc' = [cpc EXCEPT ![t] = "out"]
    /\ ctmp' = [ctmp EXCEPT ![t] = 0]
    /\ carg' = [carg EXCEPT ![t] = NULL]
    /\ UNCHANGED <<master_lock, ncalls, h_net>>
    /\ UNCHANGED <<list, free_list, next, ref_cnt, de_state, aborted>>
    /\ CallerUnchanged

\* DetectEngineReference(s): the load of de_ctx->ref_cnt++ (1608)
ReferenceLoad(t, s) ==
    /\ Quiet /\ cpc[t] = "out" /\ cown[t] = NULL /\ ncalls[t] < MaxCalls
    /\ de_state[s] = "live"
    /\ ctmp' = [ctmp EXCEPT ![t] = ref_cnt[s]]
    /\ carg' = [carg EXCEPT ![t] = s]
    /\ cpc' = [cpc EXCEPT ![t] = "ref_store"]
    /\ ncalls' = [ncalls EXCEPT ![t] = @ + 1]
    /\ UNCHANGED <<master_lock, cown, h_net>>
    /\ UNCHANGED <<list, free_list, next, ref_cnt, de_state, aborted>>
    /\ CallerUnchanged

\* the store of de_ctx->ref_cnt++; return de_ctx (1608-1609)
ReferenceStore(t) ==
    /\ ~aborted /\ cpc[t] = "ref_store"
    /\ ref_cnt' = [ref_cnt EXCEPT ![carg[t]] = Inc32(ctmp[t])]
    /\ h_net' = [h_net EXCEPT ![carg[t]] = @ + 1]
    /\ cown' = [cown EXCEPT ![t] = carg[t]]
    /\ cpc' = [cpc EXCEPT ![t] = "out"]
    /\ ctmp' = [ctmp EXCEPT ![t] = 0]
    /\ carg' = [carg EXCEPT ![t] = NULL]
    /\ UNCHANGED <<master_lock, ncalls>>
    /\ UNCHANGED <<list, free_list, next, de_state, aborted>>
    /\ CallerUnchanged

\* DetectEngineDeReference(&own): BUG_ON and the load of ref_cnt-- (1614-1615)
DeReferenceLoad(t) ==
    /\ Quiet /\ cpc[t] = "out" /\ cown[t] # NULL
    /\ IF DeRefBugOn(cown[t])
       THEN aborted' = TRUE /\ UNCHANGED <<ctmp, carg, cpc>>
       ELSE /\ ctmp' = [ctmp EXCEPT ![t] = ref_cnt[cown[t]]]
            /\ carg' = [carg EXCEPT ![t] = cown[t]]
            /\ cpc' = [cpc EXCEPT ![t] = "deref_store"]
            /\ UNCHANGED aborted
    /\ UNCHANGED <<master_lock, cown, ncalls, h_net>>
    /\ UNCHANGED <<list, free_list, next, ref_cnt, de_state>>
    /\ CallerUnchanged

\* the store of ref_cnt--; *de_ctx = NULL (1615-1616)
DeReferenceStore(t) ==
    /\ ~aborted /\ cpc[t] = "deref_store"
    /\ ref_cnt' = [ref_cnt EXCEPT ![carg[t]] = Dec32(ctmp[t])]
    /\ h_net' = [h_net EXCEPT ![carg[t]] = @ - 1]
    /\ cown' = [cown EXCEPT ![t] = NULL]
    /\ cpc' = [cpc EXCEPT ![t] = "out"]
    /\ ctmp' = [ctmp EXCEPT ![t] = 0]
    /\ carg' = [carg EXCEPT ![t] = NULL]
    /\ UNCHANGED <<master_lock, ncalls>>
    /\ UNCHANGED <<list, free_list, next, de_state, aborted>>
    /\ CallerUnchanged

\* a thread initialises an engine context and links it with
\* DetectEngineAddToMaster, which runs under master->lock
CallerAddToMaster(t) ==
    /\ Quiet /\ cpc[t] = "out" /\ master_lock = 0 /\ CanAlloc
    /\ LET r == AddToMaster(FreshSnap) IN
        /\ list' = r.list
        /\ next' = r.next
    /\ de_state' = [de_state EXCEPT ![FreshSnap] = "live"]
    /\ ref_cnt' = [ref_cnt EXCEPT ![FreshSnap] = 0]
    /\ UNCHANGED <<free_list, aborted>>
    /\ UNCHANGED threadVars
    /\ CallerUnchanged

\* a thread calls DetectEngineMoveToFreeList(de), which runs under
\* master->lock
CallerMoveToFreeList(t, de) ==
    /\ Quiet /\ cpc[t] = "out" /\ master_lock = 0 /\ de_state[de] = "live"
    /\ LET r == MoveToFreeList(de) IN
        /\ list' = r.list
        /\ free_list' = r.free_list
        /\ next' = r.next
    /\ UNCHANGED <<ref_cnt, de_state, aborted>>
    /\ UNCHANGED threadVars
    /\ CallerUnchanged

(***************************************************************************)
(* Thread contexts and packet workers.  The thread context built for       *)
(* worker w against engine s has the address CtxId(w, s).                  *)
(***************************************************************************)
CtxId(w, s) == (w - 1) * MaxSnap + s

RunmodeIsUnittests == FALSE

DetectTvs == {w \in Workers : tm_detect[w]}

\* DetectEngineThreadCtxDeinit(NULL, c): releases the scratch, drops the
\* reference on c->de_ctx and frees c
ThreadCtxDeinit(c) ==
    IF c = NULL
    THEN UNCHANGED <<ctx_state, ctx_de, ctx_used, ref_cnt, aborted>>
    ELSE IF ctx_de[c] # NULL /\ (~RunmodeIsUnittests \/ ref_cnt[ctx_de[c]] # 0)
    THEN IF DeRefBugOn(ctx_de[c])
         THEN aborted' = TRUE /\ UNCHANGED <<ctx_state, ctx_de, ctx_used, ref_cnt>>
         ELSE /\ ref_cnt' = DeReference_ref(ctx_de[c])
              /\ ctx_de' = [ctx_de EXCEPT ![c] = NULL]
              /\ ctx_state' = [ctx_state EXCEPT ![c] = "free"]
              /\ ctx_used' = [ctx_used EXCEPT ![c] = 0]
              /\ UNCHANGED aborted
    ELSE /\ ctx_state' = [ctx_state EXCEPT ![c] = "free"]
         /\ ctx_de' = [ctx_de EXCEPT ![c] = NULL]
         /\ ctx_used' = [ctx_used EXCEPT ![c] = 0]
         /\ UNCHANGED <<ref_cnt, aborted>>

\* a worker takes a packet and loads the thread context of its detect slot
WorkerLoad(w) ==
    /\ ~aborted /\ tm_detect[w] /\ wpc[w] = "idle" /\ ~running_done[w]
    /\ wcur' = [wcur EXCEPT ![w] = slot_data[w]]
    /\ wpc' = [wpc EXCEPT ![w] = "busy"]
    /\ inq' = inq \ {w}
    /\ UNCHANGED <<ctx_state, ctx_de, ctx_used, slot_data, tm_detect,
                   running_done, suricata_ctl_flags, tv_root_lock>>
    /\ UNCHANGED <<registerVars, keywordVars, confVars, latchVars, callerVars, masterVars, reloadVars>>

\* the detect module runs on the loaded context: it marks the context as
\* used and inspects the packet with the context's scratch
WorkerDetect(w) ==
    /\ ~aborted /\ wpc[w] = "busy"
    /\ ctx_used' = [ctx_used EXCEPT ![wcur[w]] = 1]
    /\ wpc' = [wpc EXCEPT ![w] = "idle"]
    /\ wcur' = [wcur EXCEPT ![w] = NULL]
    /\ UNCHANGED <<ctx_state, ctx_de, slot_data, tm_detect, running_done,
                   inq, suricata_ctl_flags, tv_root_lock>>
    /\ UNCHANGED <<registerVars, keywordVars, confVars, latchVars, callerVars, masterVars, reloadVars>>

\* on engine shutdown a worker leaves its packet loop and sets THV_RUNNING_DONE
WorkerRunningDone(w) ==
    /\ ~aborted /\ tm_detect[w] /\ wpc[w] = "idle" /\ ~running_done[w]
    /\ suricata_ctl_flags # 0
    /\ running_done' = [running_done EXCEPT ![w] = TRUE]
    /\ UNCHANGED <<ctx_state, ctx_de, ctx_used, slot_data, tm_detect, wpc,
                   wcur, inq, suricata_ctl_flags, tv_root_lock>>
    /\ UNCHANGED <<registerVars, keywordVars, confVars, latchVars, callerVars, masterVars, reloadVars>>

\* engine shutdown is requested
EngineStop ==
    /\ ~aborted /\ suricata_ctl_flags = 0
    /\ suricata_ctl_flags' = 1
    /\ UNCHANGED <<ctx_state, ctx_de, ctx_used, slot_data, tm_detect, wpc,
                   wcur, running_done, inq, tv_root_lock>>
    /\ UNCHANGED <<registerVars, keywordVars, confVars, latchVars, callerVars, masterVars, reloadVars>>

(***************************************************************************)
(* DetectEngineReload (1742-1811) and DetectEngineReloadThreads (503-703), *)
(* run by the control thread.  rpc is its position; g records what held    *)
(* when the reload was called.                                             *)
(***************************************************************************)
NoGhost == [old |-> NULL, ref0 |-> 0, on_old |-> FALSE]
Zeros == [k \in 1..NWorkers |-> NULL]

ThreadsLocals == <<no_of_detect_tvs, i, tvi, old_det_ctx, new_det_ctx,
                   detect_tvs, pseudo_pkt_inserted>>

\* the reload YAML cannot be loaded or its subtree is missing (1748-1766)
ReloadConfFail ==
    /\ Quiet /\ pending = NULL
    /\ rpc' = "r_ret"
    /\ reload_ret' = -1
    /\ UNCHANGED <<old_de_ctx, new_de_ctx, threads_ret, g>>
    /\ UNCHANGED ThreadsLocals
    /\ UNCHANGED <<registerVars, keywordVars, confVars, latchVars, callerVars, masterVars, workerVars>>

\* old_de_ctx = DetectEngineGetCurrent() (1773-1775)
ReloadGetCurrent ==
    /\ Quiet /\ pending = NULL
    /\ IF list = NULL
       THEN /\ rpc' = "r_ret"
            /\ reload_ret' = -1
            /\ UNCHANGED <<old_de_ctx, g, ref_cnt>>
       ELSE /\ rpc' = "r_init"
            /\ old_de_ctx' = list
            /\ ref_cnt' = GetCurrent_ref
            /\ g' = [old |-> list, ref0 |-> ref_cnt[list],
                     on_old |-> \A w \in DetectTvs :
                                   /\ slot_data[w] # NULL
                                   /\ ctx_de[slot_data[w]] = list]
            /\ UNCHANGED reload_ret
    /\ UNCHANGED <<new_de_ctx, threads_ret>>
    /\ UNCHANGED ThreadsLocals
    /\ UNCHANGED <<list, free_list, next, de_state, pending, ext_ref, aborted>>
    /\ api_op' = "none" /\ api_ret' = -2
    /\ UNCHANGED <<registerVars, keywordVars, confVars, latchVars, threadVars, workerVars>>

\* the reference counts after the DetectEngineDeReference(&old_de_ctx) of
\* the two failure paths (1783, 1788)
ReloadFail_ref_Leak == ref_cnt
ReloadFail_ref == DeReference_ref(old_de_ctx)

\* new_de_ctx = DetectEngineCtxInitWithPrefix(); SigLoadSignatures
\* (1779-1791).  When the signatures cannot be loaded the new engine
\* context is freed again, which leaves the state of a failed initialisation
ReloadInit ==
    /\ rpc = "r_init" /\ ~aborted
    /\ \/ \* initialisation or signature loading fails
          /\ IF DeRefBugOn(old_de_ctx)
             THEN aborted' = TRUE /\ UNCHANGED <<ref_cnt, old_de_ctx, rpc, reload_ret>>
             ELSE /\ ref_cnt' = ReloadFail_ref
                  /\ old_de_ctx' = NULL
                  /\ rpc' = "r_ret"
                  /\ reload_ret' = -1
                  /\ UNCHANGED aborted
          /\ UNCHANGED <<new_de_ctx, de_state, next>>
       \/ /\ CanAlloc
          /\ new_de_ctx' = FreshSnap
          /\ de_state' = [de_state EXCEPT ![FreshSnap] = "live"]
          /\ next' = [next EXCEPT ![FreshSnap] = NULL]
          /\ ref_cnt' = [ref_cnt EXCEPT ![FreshSnap] = 0]
          /\ rpc' = "r_add"
          /\ UNCHANGED <<old_de_ctx, reload_ret, aborted>>
    /\ UNCHANGED <<threads_ret, g>>
    /\ UNCHANGED ThreadsLocals
    /\ UNCHANGED <<list, free_list, pending, ext_ref>>
    /\ UNCHANGED <<registerVars, keywordVars, confVars, latchVars, callerVars, workerVars>>

\* DetectEngineAddToMaster(new_de_ctx) (1795)
ReloadAddToMaster ==
    /\ rpc = "r_add" /\ ~aborted
    /\ LET r == AddToMaster(new_de_ctx) IN
        /\ next' = r.next
        /\ list' = r.list
    /\ rpc' = "r_move"
    /\ UNCHANGED <<old_de_ctx, new_de_ctx, threads_ret, reload_ret, g>>
    /\ UNCHANGED ThreadsLocals
    /\ UNCHANGED <<free_list, ref_cnt, de_state, pending, ext_ref, aborted>>
    /\ UNCHANGED <<registerVars, keywordVars, confVars, latchVars, callerVars, workerVars>>

\* DetectEngineMoveToFreeList(old_de_ctx) (1798)
ReloadMoveToFreeList ==
    /\ rpc = "r_move" /\ ~aborted
    /\ LET r == MoveToFreeList(old_de_ctx) IN
        /\ list' = r.list
        /\ free_list' = r.free_list
        /\ next' = r.next
    /\ rpc' = "r_deref"
    /\ UNCHANGED <<old_de_ctx, new_de_ctx, threads_ret, reload_ret, g>>
    /\ UNCHANGED ThreadsLocals
    /\ UNCHANGED <<ref_cnt, de_state, pending, ext_ref, aborted>>
    /\ UNCHANGED <<registerVars, keywordVars, confVars, latchVars, callerVars, workerVars>>

\* DetectEngineDeReference(&old_de_ctx) (1799)
ReloadDeReference ==
    /\ rpc = "r_deref" /\ ~aborted
    /\ IF DeRefBugOn(old_de_ctx)
       THEN aborted' = TRUE /\ UNCHANGED <<ref_cnt, old_de_ctx, rpc>>
       ELSE /\ ref_cnt' = DeReference_ref(old_de_ctx)
            /\ old_de_ctx' = NULL
            /\ rpc' = "t_count"
            /\ UNCHANGED aborted
    /\ UNCHANGED <<new_de_ctx, threads_ret, reload_ret, g>>
    /\ UNCHANGED ThreadsLocals
    /\ UNCHANGED <<list, free_list, next, de_state, pending, ext_ref>>
    /\ UNCHANGED <<registerVars, keywordVars, confVars, latchVars, callerVars, workerVars>>

\* phase 1, count the detect threads under tv_root_lock (511-541); the
\* walk has no effect but the count, so it is one step
ThreadsCount ==
    /\ rpc = "t_count" /\ ~aborted /\ tv_root_lock = 0
    /\ IF NWorkers > 0 /\ suricata_ctl_flags # 0
       THEN /\ threads_ret' = -1
            /\ rpc' = "r_prune"
            /\ UNCHANGED <<ThreadsLocals, tv_root_lock>>
       ELSE IF Cardinality(DetectTvs) = 0
       THEN /\ threads_ret' = 0
            /\ rpc' = "r_prune"
            /\ UNCHANGED <<ThreadsLocals, tv_root_lock>>
       ELSE /\ no_of_detect_tvs' = Cardinality(DetectTvs)
            /\ old_det_ctx' = Zeros
            /\ new_det_ctx' = Zeros
            /\ detect_tvs' = Zeros
            /\ i' = 0
            /\ tvi' = 1
            /\ tv_root_lock' = 1
            /\ rpc' = "t_build"
            /\ UNCHANGED <<threads_ret, pseudo_pkt_inserted>>
    /\ UNCHANGED <<old_de_ctx, new_de_ctx, reload_ret, g>>
    /\ UNCHANGED masterVars
    /\ UNCHANGED <<ctx_state, ctx_de, ctx_used, slot_data, tm_detect, wpc,
                   wcur, running_done, inq, suricata_ctl_flags>>
    /\ UNCHANGED <<registerVars, keywordVars, confVars, latchVars, callerVars, callerVars>>

\* so_far_used_by_detect of a context DetectEngineThreadCtxInitForReload
\* returns (memset 1380, SC_ATOMIC_INIT 1293)
InitUsedByDetect_Set(c) == 1
InitUsedByDetect(c) == 0

\* phase 2, one thread of the walk (555-591): capture the old context and
\* build the new one with DetectEngineThreadCtxInitForReload (1375-1411)
ThreadsBuild ==
    /\ rpc = "t_build" /\ ~aborted
    /\ IF tvi > NWorkers
       THEN /\ rpc' = "t_publish"
            /\ i' = 0
            /\ tvi' = 1
            /\ UNCHANGED <<old_det_ctx, new_det_ctx, detect_tvs, tv_root_lock,
                           ctx_state, ctx_de, ctx_used, ref_cnt>>
       ELSE IF suricata_ctl_flags # 0
       THEN /\ tv_root_lock' = 0
            /\ rpc' = "t_error"
            /\ i' = 0
            /\ UNCHANGED <<tvi, old_det_ctx, new_det_ctx, detect_tvs,
                           ctx_state, ctx_de, ctx_used, ref_cnt>>
       ELSE IF ~tm_detect[tvi]
       THEN /\ tvi' = tvi + 1
            /\ UNCHANGED <<rpc, i, old_det_ctx, new_det_ctx, detect_tvs,
                           tv_root_lock, ctx_state, ctx_de, ctx_used, ref_cnt>>
       ELSE /\ old_det_ctx' = [old_det_ctx EXCEPT ![i + 1] = slot_data[tvi]]
            /\ detect_tvs' = [detect_tvs EXCEPT ![i + 1] = tvi]
            /\ \/ \* an allocation in the initialisation fails: NULL
                  /\ tv_root_lock' = 0
                  /\ rpc' = "t_error"
                  /\ i' = 0
                  /\ UNCHANGED <<tvi, new_det_ctx, ctx_state, ctx_de,
                                 ctx_used, ref_cnt>>
               \/ LET c == CtxId(tvi, new_de_ctx) IN
                  /\ ctx_state' = [ctx_state EXCEPT ![c] = "live"]
                  /\ ctx_de' = [ctx_de EXCEPT ![c] = new_de_ctx]
                  /\ ctx_used' = [ctx_used EXCEPT ![c] = InitUsedByDetect(c)]
                  /\ ref_cnt' = Reference_ref(new_de_ctx)
                  /\ new_det_ctx' = [new_det_ctx EXCEPT ![i + 1] = c]
                  /\ i' = i + 1
                  /\ tvi' = tvi + 1
                  /\ UNCHANGED <<rpc, tv_root_lock>>
    /\ UNCHANGED <<old_de_ctx, new_de_ctx, no_of_detect_tvs,
                   pseudo_pkt_inserted, threads_ret, reload_ret, g>>
    /\ UNCHANGED <<list, free_list, next, de_state, pending, ext_ref, aborted>>
    /\ UNCHANGED <<slot_data, tm_detect, wpc, wcur, running_done, inq,
                   suricata_ctl_flags>>
    /\ UNCHANGED <<registerVars, keywordVars, confVars, latchVars, callerVars, callerVars>>

\* the context the error label destroys for the k-th detect thread (699-700)
ErrorCtx_Skip(k) == NULL
ErrorCtx(k) == new_det_ctx[k]

\* the error label (697-702): destroy the new contexts built so far
ThreadsError ==
    /\ rpc = "t_error" /\ ~aborted
    /\ IF i < no_of_detect_tvs
       THEN /\ ThreadCtxDeinit(ErrorCtx(i + 1))
            /\ i' = IF aborted' THEN i ELSE i + 1
            /\ UNCHANGED <<rpc, threads_ret>>
       ELSE /\ threads_ret' = -1
            /\ rpc' = "r_prune"
            /\ UNCHANGED <<i, ctx_state, ctx_de, ctx_used, ref_cnt, aborted>>
    /\ UNCHANGED <<old_de_ctx, new_de_ctx, no_of_detect_tvs, tvi, old_det_ctx,
                   new_det_ctx, detect_tvs, pseudo_pkt_inserted, reload_ret, g>>
    /\ UNCHANGED <<list, free_list, next, de_state, pending, ext_ref>>
    /\ UNCHANGED <<slot_data, tm_detect, wpc, wcur, running_done,
                   inq, suricata_ctl_flags, tv_root_lock>>
    /\ UNCHANGED <<registerVars, keywordVars, confVars, latchVars, callerVars, callerVars>>

\* the context stored into the slot of the k-th detect thread (612)
PublishCtx_First(k) == new_det_ctx[1]
PublishCtx(k) == new_det_ctx[k]

\* phase 3, one thread of the walk (593-616): store the new context into
\* the detect slot; on shutdown the function returns with the lock held
ThreadsPublish ==
    /\ rpc = "t_publish" /\ ~aborted
    /\ IF tvi > NWorkers
       THEN /\ tv_root_lock' = 0
            /\ rpc' = "t_adopt"
            /\ i' = 0
            /\ pseudo_pkt_inserted' = 0
            /\ UNCHANGED <<tvi, slot_data, threads_ret>>
       ELSE IF suricata_ctl_flags # 0
       THEN /\ threads_ret' = -1
            /\ rpc' = "r_prune"
            /\ UNCHANGED <<i, tvi, slot_data, tv_root_lock, pseudo_pkt_inserted>>
       ELSE IF ~tm_detect[tvi]
       THEN /\ tvi' = tvi + 1
            /\ UNCHANGED <<rpc, i, slot_data, tv_root_lock, threads_ret,
                           pseudo_pkt_inserted>>
       ELSE /\ slot_data' = [slot_data EXCEPT ![tvi] = PublishCtx(i + 1)]
            /\ i' = i + 1
            /\ tvi' = tvi + 1
            /\ UNCHANGED <<rpc, tv_root_lock, threads_ret, pseudo_pkt_inserted>>
    /\ UNCHANGED <<old_de_ctx, new_de_ctx, no_of_detect_tvs, old_det_ctx,
                   new_det_ctx, detect_tvs, reload_ret, g>>
    /\ UNCHANGED masterVars
    /\ UNCHANGED <<ctx_state, ctx_de, ctx_used, tm_detect, wpc, wcur,
                   running_done, inq, suricata_ctl_flags>>
    /\ UNCHANGED <<registerVars, keywordVars, confVars, latchVars, callerVars, callerVars>>

\* the exit test of the adoption loop (630)
UsedByDetect_Skip(c) == TRUE
UsedByDetect(c) == ctx_used[c] = 1

\* the test that guards phase 5 (662): the adoption loop left early
Phase5Entered_Never(k, n) == FALSE
Phase5Entered(k, n) == k # n

\* phase 4, one test of the adoption loop for thread i (624-655); the
\* usleep between two tests changes nothing.  The pseudo packet is tried
\* once per thread: pseudo_pkt_inserted is set before the attempt, and
\* nothing is enqueued when the thread has no input queue or
\* PacketGetFromAlloc returns NULL (638-649)
ThreadsAdopt ==
    /\ rpc = "t_adopt" /\ ~aborted
    /\ IF i >= no_of_detect_tvs \/ (~UsedByDetect(new_det_ctx[i + 1])
                                    /\ suricata_ctl_flags # 0)
       THEN \* the loop is over, or left with break_out
            /\ IF Phase5Entered(i, no_of_detect_tvs)
               THEN rpc' = "t_waitdone" /\ tvi' = 1 /\ UNCHANGED i
               ELSE rpc' = "t_free" /\ i' = 0 /\ UNCHANGED tvi
            /\ UNCHANGED <<pseudo_pkt_inserted, inq>>
       ELSE IF UsedByDetect(new_det_ctx[i + 1])
       THEN /\ i' = i + 1
            /\ pseudo_pkt_inserted' = 0
            /\ UNCHANGED <<rpc, tvi, inq>>
       ELSE /\ pseudo_pkt_inserted = 0
            /\ pseudo_pkt_inserted' = 1
            /\ \/ inq' = inq \cup {detect_tvs[i + 1]}
               \/ UNCHANGED inq
            /\ UNCHANGED <<rpc, i, tvi>>
    /\ UNCHANGED <<old_de_ctx, new_de_ctx, no_of_detect_tvs, old_det_ctx,
                   new_det_ctx, detect_tvs, threads_ret, reload_ret, g>>
    /\ UNCHANGED masterVars
    /\ UNCHANGED <<ctx_state, ctx_de, ctx_used, slot_data, tm_detect, wpc,
                   wcur, running_done, suricata_ctl_flags, tv_root_lock>>
    /\ UNCHANGED <<registerVars, keywordVars, confVars, latchVars, callerVars, callerVars>>

\* the exit test of the wait for a detect thread in phase 5 (674)
CheckRunningDone_Skip(w) == TRUE
CheckRunningDone(w) == running_done[w]

\* phase 5, one thread of the walk (662-683): wait for THV_RUNNING_DONE
ThreadsWaitDone ==
    /\ rpc = "t_waitdone" /\ ~aborted
    /\ IF tvi > NWorkers
       THEN /\ rpc' = "t_free"
            /\ i' = 0
            /\ UNCHANGED tvi
       ELSE /\ tm_detect[tvi] => CheckRunningDone(tvi)
            /\ tvi' = tvi + 1
            /\ UNCHANGED <<rpc, i>>
    /\ UNCHANGED <<old_de_ctx, new_de_ctx, no_of_detect_tvs, old_det_ctx,
                   new_det_ctx, detect_tvs, pseudo_pkt_inserted, threads_ret,
                   reload_ret, g>>
    /\ UNCHANGED masterVars
    /\ UNCHANGED workerVars
    /\ UNCHANGED <<registerVars, keywordVars, confVars, latchVars, callerVars, callerVars>>

\* the context phase 6 destroys for the k-th detect thread (689)
Phase6Ctx_Skip(k) == NULL
Phase6Ctx(k) == old_det_ctx[k]

\* phase 6, one old context (685-695)
ThreadsFree ==
    /\ rpc = "t_free" /\ ~aborted
    /\ IF i < no_of_detect_tvs
       THEN /\ ThreadCtxDeinit(Phase6Ctx(i + 1))
            /\ i' = IF aborted' THEN i ELSE i + 1
            /\ UNCHANGED <<rpc, threads_ret>>
       ELSE /\ threads_ret' = 1
            /\ rpc' = "r_prune"
            /\ UNCHANGED <<i, ctx_state, ctx_de, ctx_used, ref_cnt, aborted>>
    /\ UNCHANGED <<old_de_ctx, new_de_ctx, no_of_detect_tvs, tvi, old_det_ctx,
                   new_det_ctx, detect_tvs, pseudo_pkt_inserted, reload_ret, g>>
    /\ UNCHANGED <<list, free_list, next, de_state, pending, ext_ref>>
    /\ UNCHANGED <<slot_data, tm_detect, wpc, wcur, running_done,
                   inq, suricata_ctl_flags, tv_root_lock>>
    /\ UNCHANGED <<registerVars, keywordVars, confVars, latchVars, callerVars, callerVars>>

\* DetectEnginePruneFreeList(); return 0 (1807-1810): the return value of
\* DetectEngineReloadThreads is not looked at
ReloadPrune ==
    /\ rpc = "r_prune" /\ ~aborted
    /\ LET r == PruneFreeList IN
        /\ free_list' = r.free_list
        /\ next' = r.next
        /\ de_state' = r.de_state
    /\ reload_ret' = 0
    /\ rpc' = "r_ret"
    /\ UNCHANGED <<old_de_ctx, new_de_ctx, threads_ret, g>>
    /\ UNCHANGED ThreadsLocals
    /\ UNCHANGED <<list, ref_cnt, pending, ext_ref, aborted>>
    /\ UNCHANGED <<registerVars, keywordVars, confVars, latchVars, callerVars, workerVars>>

\* DetectEngineReload has returned; its locals go out of scope
ReloadReturn ==
    /\ rpc = "r_ret" /\ ~aborted
    /\ rpc' = "idle"
    /\ old_de_ctx' = NULL
    /\ new_de_ctx' = NULL
    /\ no_of_detect_tvs' = 0
    /\ i' = 0
    /\ tvi' = 0
    /\ old_det_ctx' = Zeros
    /\ new_det_ctx' = Zeros
    /\ detect_tvs' = Zeros
    /\ pseudo_pkt_inserted' = 0
    /\ threads_ret' = -2
    /\ reload_ret' = -2
    /\ g' = NoGhost
    /\ UNCHANGED <<registerVars, keywordVars, confVars, latchVars, callerVars, masterVars, workerVars>>

(***************************************************************************)
(* The table of app inspection engines: detect-engine.c 109 and 313-425.   *)
(* A chain (the list linked through next) is the sequence of its entries   *)
(* from the head: entry k's next is entry k + 1, the last one's is NULL.   *)
(* The enumerators come from headers; only their order against the limits  *)
(* the code tests matters, so each is its position in the list below.      *)
(***************************************************************************)
AppProtoNames ==
    <<"ALPROTO_UNKNOWN", "ALPROTO_HTTP", "ALPROTO_DNS", "ALPROTO_SMTP",
      "ALPROTO_MODBUS", "ALPROTO_FAILED">>
SmListNames ==
    <<"DETECT_SM_LIST_MATCH", "DETECT_SM_LIST_UMATCH",
      "DETECT_SM_LIST_HRLMATCH", "DETECT_SM_LIST_HCBDMATCH",
      "DETECT_SM_LIST_HHDMATCH", "DETECT_SM_LIST_HRHDMATCH",
      "DETECT_SM_LIST_HMDMATCH", "DETECT_SM_LIST_HCDMATCH",
      "DETECT_SM_LIST_HRUDMATCH", "DETECT_SM_LIST_FILEMATCH",
      "DETECT_SM_LIST_HUADMATCH", "DETECT_SM_LIST_HHHDMATCH",
      "DETECT_SM_LIST_HRHHDMATCH", "DETECT_SM_LIST_DNSQUERY_MATCH",
      "DETECT_SM_LIST_MODBUS_MATCH", "DETECT_SM_LIST_FILEDATA",
      "DETECT_SM_LIST_HSMDMATCH", "DETECT_SM_LIST_HSCDMATCH">>

AppProto(n) == (CHOOSE k \in 1..Len(AppProtoNames) : AppProtoNames[k] = n) - 1
SmList(n) == (CHOOSE k \in 1..Len(SmListNames) : SmListNames[k] = n) - 1

ALPROTO_UNKNOWN == AppProto("ALPROTO_UNKNOWN")
ALPROTO_FAILED == AppProto("ALPROTO_FAILED")
DETECT_SM_LIST_MATCH == SmList("DETECT_SM_LIST_MATCH")
DETECT_SM_LIST_MAX == Len(SmListNames)

\* a null Callback
NoCallback == "NULL"

\* the row of the table a protocol uses
FlowGetProtoMapping(ipproto) ==
    IF ipproto = "IPPROTO_TCP" THEN "FLOW_PROTO_TCP" ELSE "FLOW_PROTO_UDP"

IpProtos == {"IPPROTO_TCP", "IPPROTO_UDP"}
Cells ==
    {FlowGetProtoMapping(p) : p \in IpProtos}
        \X ((ALPROTO_UNKNOWN + 1)..(ALPROTO_FAILED - 1)) \X (0..1)

\* app_inspection_engine after the zero initialisation of a global (109);
\* a table maps the cells whose head is not NULL to their chains
EmptyTable == [c \in {} |-> <<>>]

\* the index [FlowGetProtoMapping(ipproto)][alproto][dir] of a chain head
Cell_NoDir(a) == <<FlowGetProtoMapping(a.ipproto), a.alproto, 0>>
Cell(a) == <<FlowGetProtoMapping(a.ipproto), a.alproto, a.dir>>

\* the chain at a cell of a table
ChainAt(tab, c) == IF c \in DOMAIN tab THEN tab[c] ELSE <<>>

\* the argument check of DetectEngineRegisterAppInspectionEngine (392-399)
Invalid(has_list, a) ==
    \/ ~has_list
    \/ a.alproto <= ALPROTO_UNKNOWN \/ a.alproto >= ALPROTO_FAILED
    \/ a.dir > 1
    \/ a.sm_list < DETECT_SM_LIST_MATCH \/ a.sm_list >= DETECT_SM_LIST_MAX
    \/ a.Callback = NoCallback

\* the walk that looks for an engine already registered (402-408)
Found_Never(chain, sm_list, Callback) == FALSE
Found(chain, sm_list, Callback) ==
    \E k \in 1..Len(chain) :
        chain[k].sm_list = sm_list /\ chain[k].Callback = Callback

\* the new engine (410-421); memset leaves its next NULL
NewEngine_NoFlags(a) == [a EXCEPT !.inspect_flags = "0"]
NewEngine(a) ==
    [ipproto |-> a.ipproto, alproto |-> a.alproto, dir |-> a.dir,
     sm_list |-> a.sm_list, inspect_flags |-> a.inspect_flags,
     Callback |-> a.Callback]

\* the test that ends AppendAppInspectionEngine with exit() (357-367)
AppendClash_SmList(chain, engine) ==
    \E k \in 1..Len(chain) :
        chain[k].dir = engine.dir /\ chain[k].sm_list = engine.sm_list
AppendClash_Never(chain, engine) == FALSE
AppendClash(chain, engine) ==
    \E k \in 1..Len(chain) :
        /\ chain[k].dir = engine.dir
        /\ \/ chain[k].sm_list = engine.sm_list
           \/ chain[k].inspect_flags = engine.inspect_flags

\* the link after the last entry, or the head of an empty chain (371-374)
InsertAtTail_Head(chain, engine) == <<engine>> \o chain
InsertAtTail(chain, engine) == Append(chain, engine)

\* AppendAppInspectionEngine (350-377): the table it leaves and how it ends
AppendAppInspectionEngine(engine, tab) ==
    IF AppendClash(ChainAt(tab, Cell(engine)), engine)
    THEN [list |-> tab, ret |-> "duplicate"]
    ELSE [list |-> [c \in DOMAIN tab \cup {Cell(engine)} |->
                       IF c = Cell(engine)
                       THEN InsertAtTail(ChainAt(tab, c), engine)
                       ELSE tab[c]],
          ret |-> "added"]

\* DetectEngineRegisterAppInspectionEngine (379-425) when SCMalloc succeeds
Register(tab, has_list, a) ==
    IF Invalid(has_list, a)
    THEN [list |-> tab, ret |-> "invalid"]
    ELSE IF Found(ChainAt(tab, Cell(a)), a.sm_list, a.Callback)
    THEN [list |-> tab, ret |-> "found"]
    ELSE AppendAppInspectionEngine(NewEngine(a), tab)

\* an initialiser of struct tmp_t (144-156)
Row(ipproto, alproto, sm_list, inspect_flags, dir, Callback) ==
    [ipproto |-> ipproto, alproto |-> AppProto(alproto), dir |-> dir,
     sm_list |-> SmList(sm_list), inspect_flags |-> inspect_flags,
     Callback |-> Callback]

data_toserver == <<
    Row("IPPROTO_TCP", "ALPROTO_HTTP", "DETECT_SM_LIST_UMATCH",
        "DE_STATE_FLAG_URI_INSPECT", 0, "DetectEngineInspectPacketUris"),
    Row("IPPROTO_TCP", "ALPROTO_HTTP", "DETECT_SM_LIST_HRLMATCH",
        "DE_STATE_FLAG_HRL_INSPECT", 0, "DetectEngineInspectHttpRequestLine"),
    Row("IPPROTO_TCP", "ALPROTO_HTTP", "DETECT_SM_LIST_HCBDMATCH",
        "DE_STATE_FLAG_HCBD_INSPECT", 0, "DetectEngineInspectHttpClientBody"),
    Row("IPPROTO_TCP", "ALPROTO_HTTP", "DETECT_SM_LIST_HHDMATCH",
        "DE_STATE_FLAG_HHD_INSPECT", 0, "DetectEngineInspectHttpHeader"),
    Row("IPPROTO_TCP", "ALPROTO_HTTP", "DETECT_SM_LIST_HRHDMATCH",
        "DE_STATE_FLAG_HRHD_INSPECT", 0, "DetectEngineInspectHttpRawHeader"),
    Row("IPPROTO_TCP", "ALPROTO_HTTP", "DETECT_SM_LIST_HMDMATCH",
        "DE_STATE_FLAG_HMD_INSPECT", 0, "DetectEngineInspectHttpMethod"),
    Row("IPPROTO_TCP", "ALPROTO_HTTP", "DETECT_SM_LIST_HCDMATCH",
        "DE_STATE_FLAG_HCD_INSPECT", 0, "DetectEngineInspectHttpCookie"),
    Row("IPPROTO_TCP", "ALPROTO_HTTP", "DETECT_SM_LIST_HRUDMATCH",
        "DE_STATE_FLAG_HRUD_INSPECT", 0, "DetectEngineInspectHttpRawUri"),
    Row("IPPROTO_TCP", "ALPROTO_HTTP", "DETECT_SM_LIST_FILEMATCH",
        "DE_STATE_FLAG_FILE_TS_INSPECT", 0, "DetectFileInspectHttp"),
    Row("IPPROTO_TCP", "ALPROTO_HTTP", "DETECT_SM_LIST_HUADMATCH",
        "DE_STATE_FLAG_HUAD_INSPECT", 0, "DetectEngineInspectHttpUA"),
    Row("IPPROTO_TCP", "ALPROTO_HTTP", "DETECT_SM_LIST_HHHDMATCH",
        "DE_STATE_FLAG_HHHD_INSPECT", 0, "DetectEngineInspectHttpHH"),
    Row("IPPROTO_TCP", "ALPROTO_HTTP", "DETECT_SM_LIST_HRHHDMATCH",
        "DE_STATE_FLAG_HRHHD_INSPECT", 0, "DetectEngineInspectHttpHRH"),
    Row("IPPROTO_TCP", "ALPROTO_DNS", "DETECT_SM_LIST_DNSQUERY_MATCH",
        "DE_STATE_FLAG_DNSQUERY_INSPECT", 0, "DetectEngineInspectDnsQueryName"),
    Row("IPPROTO_UDP", "ALPROTO_DNS", "DETECT_SM_LIST_DNSQUERY_MATCH",
        "DE_STATE_FLAG_DNSQUERY_INSPECT", 0, "DetectEngineInspectDnsQueryName"),
    Row("IPPROTO_TCP", "ALPROTO_SMTP", "DETECT_SM_LIST_FILEMATCH",
        "DE_STATE_FLAG_FILE_TS_INSPECT", 0, "DetectFileInspectSmtp"),
    Row("IPPROTO_TCP", "ALPROTO_MODBUS", "DETECT_SM_LIST_MODBUS_MATCH",
        "DE_STATE_FLAG_MODBUS_INSPECT", 0, "DetectEngineInspectModbus"),
    Row("IPPROTO_TCP", "ALPROTO_SMTP", "DETECT_SM_LIST_FILEDATA",
        "DE_STATE_FLAG_FD_SMTP_INSPECT", 0, "DetectEngineInspectSMTPFiledata") >>

data_toclient == <<
    Row("IPPROTO_TCP", "ALPROTO_HTTP", "DETECT_SM_LIST_FILEDATA",
        "DE_STATE_FLAG_HSBD_INSPECT", 1, "DetectEngineInspectHttpServerBody"),
    Row("IPPROTO_TCP", "ALPROTO_HTTP", "DETECT_SM_LIST_HHDMATCH",
        "DE_STATE_FLAG_HHD_INSPECT", 1, "DetectEngineInspectHttpHeader"),
    Row("IPPROTO_TCP", "ALPROTO_HTTP", "DETECT_SM_LIST_HRHDMATCH",
        "DE_STATE_FLAG_HRHD_INSPECT", 1, "DetectEngineInspectHttpRawHeader"),
    Row("IPPROTO_TCP", "ALPROTO_HTTP", "DETECT_SM_LIST_HCDMATCH",
        "DE_STATE_FLAG_HCD_INSPECT", 1, "DetectEngineInspectHttpCookie"),
    Row("IPPROTO_TCP", "ALPROTO_HTTP", "DETECT_SM_LIST_FILEMATCH",
        "DE_STATE_FLAG_FILE_TC_INSPECT", 1, "DetectFileInspectHttp"),
    Row("IPPROTO_TCP", "ALPROTO_HTTP", "DETECT_SM_LIST_HSMDMATCH",
        "DE_STATE_FLAG_HSMD_INSPECT", 1, "DetectEngineInspectHttpStatMsg"),
    Row("IPPROTO_TCP", "ALPROTO_HTTP", "DETECT_SM_LIST_HSCDMATCH",
        "DE_STATE_FLAG_HSCD_INSPECT", 1, "DetectEngineInspectHttpStatCode"),
    Row("IPPROTO_TCP", "ALPROTO_MODBUS", "DETECT_SM_LIST_MODBUS_MATCH",
        "DE_STATE_FLAG_MODBUS_INSPECT", 0, "DetectEngineInspectModbus") >>

\* the two loops of DetectEngineRegisterAppInspectionEngines (323-340) from
\* row k of data on; a call that ends in exit() ends the loops
RECURSIVE RegisterRows(_, _, _)
RegisterRows(tab, data, k) ==
    IF k > Len(data)
    THEN [list |-> tab, ret |-> "added"]
    ELSE LET r == Register(tab, TRUE, data[k]) IN
         IF r.ret \in {"invalid", "duplicate"}
         THEN r
         ELSE RegisterRows(r.list, data, k + 1)

\* the arguments of the calls the model makes
NoArg ==
    [ipproto |-> "none", alproto |-> 0, dir |-> 0, sm_list |-> 0,
     inspect_flags |-> "none", Callback |-> NoCallback]
ValidArgs ==
    [ipproto : IpProtos,
     alproto : {AppProto("ALPROTO_HTTP"), AppProto("ALPROTO_MODBUS")},
     dir : 0..1,
     sm_list : {SmList("DETECT_SM_LIST_UMATCH"),
                SmList("DETECT_SM_LIST_MODBUS_MATCH")},
     inspect_flags : {"DE_STATE_FLAG_URI_INSPECT",
                      "DE_STATE_FLAG_MODBUS_INSPECT"},
     Callback : {"DetectEngineInspectPacketUris",
                 "DetectEngineInspectModbus"}]
\* a valid call with one argument replaced by a value the check rejects
InvalidArgs ==
    LET a == CHOOSE v \in ValidArgs : TRUE IN
    {[a EXCEPT !.alproto = ALPROTO_UNKNOWN],
     [a EXCEPT !.alproto = ALPROTO_FAILED],
     [a EXCEPT !.dir = 2],
     [a EXCEPT !.sm_list = -1],
     [a EXCEPT !.sm_list = DETECT_SM_LIST_MAX],
     [a EXCEPT !.Callback = NoCallback]}
RegArgs == ValidArgs \cup InvalidArgs

RegisterUnchanged ==
    UNCHANGED <<latchVars, masterVars, workerVars, reloadVars, callerVars,
                keywordVars, confVars>>

\* one call of DetectEngineRegisterAppInspectionEngine (379-425) on the
\* table; reg_arg holds the arguments of the last call, exited how the
\* process ended in it and reg_ret how the last call that returned did
DetectEngineRegisterAppInspectionEngine(has_list, a) ==
    /\ exited = "no" /\ nregs < MaxRegs
    /\ nregs' = nregs + 1
    /\ reg_arg' = a
    /\ LET r == Register(app_inspection_engine, has_list, a) IN
       \/ /\ r.ret \in {"invalid", "duplicate"}
          /\ exited' = r.ret
          /\ UNCHANGED <<app_inspection_engine, reg_ret>>
       \/ \* SCMalloc returns NULL (410-413)
          /\ r.ret \in {"duplicate", "added"}
          /\ exited' = "nomem"
          /\ UNCHANGED <<app_inspection_engine, reg_ret>>
       \/ /\ r.ret \in {"found", "added"}
          /\ app_inspection_engine' = r.list
          /\ reg_ret' = r.ret
          /\ UNCHANGED exited
    /\ RegisterUnchanged

\* DetectEngineRegisterAppInspectionEngines (142-348) at start-up, on the
\* zeroed global table
DetectEngineRegisterAppInspectionEngines ==
    /\ exited = "no" /\ app_inspection_engine = EmptyTable /\ nregs = 0
    /\ LET s == RegisterRows(app_inspection_engine, data_toserver, 1)
           c == RegisterRows(s.list, data_toclient, 1)
       IN
       \/ /\ ~(s.ret = "added" /\ c.ret = "added")
          /\ exited' = IF s.ret = "added" THEN c.ret ELSE s.ret
          /\ UNCHANGED <<app_inspection_engine, reg_arg, reg_ret>>
       \/ \* SCMalloc returns NULL in one of the calls
          /\ exited' = "nomem"
          /\ UNCHANGED <<app_inspection_engine, reg_arg, reg_ret>>
       \/ /\ s.ret = "added" /\ c.ret = "added"
          /\ app_inspection_engine' = c.list
          /\ reg_arg' = NoArg
          /\ reg_ret' = "builtins"
          /\ UNCHANGED exited
    /\ UNCHANGED nregs
    /\ RegisterUnchanged

(***************************************************************************)
(* The thread keyword registry of one engine context and the keyword       *)
(* array of a thread context built for it: detect-engine.c 1187-1228 and   *)
(* 1524-1570.  keyword_list is the list linked through next, head first;   *)
(* the thread-local context InitFunc returns for the item with id k is the *)
(* pointer k + 1, and the array not allocated (NULL) is <<>>.              *)
(***************************************************************************)
KeywordNames == {"filemagic", "luajit"}
NoKeyword == [name |-> "none", mode |-> 0]

\* the walk of the shared mode (1528-1537)
KeywordFound_Never(items, name, mode) == FALSE
KeywordFound(items, name, mode) ==
    mode # 0 /\ \E k \in 1..Len(items) : items[k].name = name

\* the id the walk returns: the one of the first item with the name
KeywordFoundId(items, name) ==
    LET k == CHOOSE j \in 1..Len(items) :
                 /\ items[j].name = name
                 /\ \A h \in 1..(j - 1) : items[h].name # name
    IN items[k].id

\* item->next = de_ctx->keyword_list; de_ctx->keyword_list = item (1549-1550)
KeywordLink(items, item) == <<item>> \o items

\* DetectRegisterThreadCtxFuncs (1524-1554).  Keywords are registered while
\* the signatures of the engine are loaded, before a thread context is
\* built for it.
DetectRegisterThreadCtxFuncs(args_ok, name, mode) ==
    /\ ~aborted /\ init_ret = "none" /\ keyword_id < MaxKeywords
    /\ kw_arg' = [name |-> name, mode |-> mode]
    /\ IF ~args_ok
       THEN \* BUG_ON (1526)
            /\ aborted' = TRUE
            /\ UNCHANGED <<keyword_list, keyword_id, kw_ret>>
       ELSE IF KeywordFound(keyword_list, name, mode)
       THEN /\ kw_ret' = KeywordFoundId(keyword_list, name)
            /\ UNCHANGED <<keyword_list, keyword_id, aborted>>
       ELSE \/ \* SCMalloc returns NULL (1539-1541)
               /\ kw_ret' = -1
               /\ UNCHANGED <<keyword_list, keyword_id, aborted>>
            \/ /\ keyword_list' =
                     KeywordLink(keyword_list, [id |-> keyword_id, name |-> name])
               /\ keyword_id' = keyword_id + 1
               /\ kw_ret' = keyword_id
               /\ UNCHANGED aborted
    /\ UNCHANGED <<keyword_ctxs_array, keyword_ctxs_size, init_ret, h_init_null,
                   get_arg, get_ret, get_idx>>
    /\ UNCHANGED <<list, free_list, next, ref_cnt, de_state, pending, ext_ref>>
    /\ UNCHANGED <<registerVars, confVars, latchVars, workerVars, reloadVars,
                   callerVars>>

\* keyword_ctxs_array after the walk of DetectEngineThreadCtxInitKeywords
\* (1196-1209) in which the InitFunc of the f-th item of the list returns
\* NULL (f = 0: none does): the items before it have their context, the
\* other slots keep the zero of the memset
InitKeywordsArray(items, n, f) ==
    [s \in 1..n |-> IF \E k \in 1..Len(items) :
                          items[k].id = s - 1 /\ (f = 0 \/ k < f)
                    THEN s ELSE NULL]

\* the result of ThreadCtxDoInit once it has called
\* DetectEngineThreadCtxInitKeywords, whose result it does not look at (1289)
DoInitResult(keywords_ret) == "TM_ECODE_OK"

\* what the two initialisers return for a result of ThreadCtxDoInit
\* (1347-1366, 1391-1410)
InitReturn(reload, doinit_ret) ==
    IF doinit_ret = "TM_ECODE_OK"
    THEN (IF reload THEN "det_ctx" ELSE "TM_ECODE_OK")
    ELSE (IF reload THEN "NULL" ELSE "TM_ECODE_FAILED")

CtxLive == init_ret \in {"TM_ECODE_OK", "det_ctx"}

KeywordUnchanged ==
    /\ UNCHANGED <<keyword_list, keyword_id, kw_arg, kw_ret>>
    /\ UNCHANGED masterVars
    /\ UNCHANGED <<registerVars, confVars, latchVars, workerVars, reloadVars,
                   callerVars>>

\* the keyword part of DetectEngineThreadCtxInit (1315-1367, reload FALSE)
\* and of DetectEngineThreadCtxInitForReload (1375-1411, reload TRUE) for a
\* full engine.  A failed ThreadCtxDoInit makes the first one call
\* DetectEngineThreadCtxDeinit, whose DetectEngineThreadCtxDeinitKeywords
\* reads keyword_ctxs_array[item->id] through the NULL array (1219).
ThreadCtxDoInit(reload) ==
    /\ ~aborted /\ init_ret = "none"
    /\ \/ \* no memory for det_ctx, or no engine to reference
          /\ init_ret' = InitReturn(reload, "TM_ECODE_FAILED")
          /\ UNCHANGED <<keyword_ctxs_array, keyword_ctxs_size, h_init_null>>
       \/ \* an allocation of ThreadCtxDoInit fails (1266-1287)
          /\ init_ret' = IF ~reload /\ keyword_id > 0 /\ keyword_list # <<>>
                         THEN "SIGSEGV"
                         ELSE InitReturn(reload, "TM_ECODE_FAILED")
          /\ UNCHANGED <<keyword_ctxs_array, keyword_ctxs_size, h_init_null>>
       \/ \* no keyword is registered (1189)
          /\ keyword_id = 0
          /\ init_ret' = InitReturn(reload, DoInitResult("TM_ECODE_OK"))
          /\ UNCHANGED <<keyword_ctxs_array, keyword_ctxs_size, h_init_null>>
       \/ \* no memory for the array (1190-1194)
          /\ keyword_id > 0
          /\ init_ret' = InitReturn(reload, DoInitResult("TM_ECODE_FAILED"))
          /\ UNCHANGED <<keyword_ctxs_array, keyword_ctxs_size, h_init_null>>
       \/ \* the walk (1196-1209)
          /\ keyword_id > 0
          /\ \E f \in 0..Len(keyword_list) :
                /\ keyword_ctxs_array' =
                      InitKeywordsArray(keyword_list, keyword_id, f)
                /\ h_init_null' = (f # 0)
                /\ init_ret' = InitReturn(reload,
                      DoInitResult(IF f = 0 THEN "TM_ECODE_OK"
                                   ELSE "TM_ECODE_FAILED"))
          /\ keyword_ctxs_size' = keyword_id
    /\ UNCHANGED <<get_arg, get_ret, get_idx>>
    /\ KeywordUnchanged

\* the test that makes DetectThreadCtxGetKeywordThreadCtx return NULL (1566)
GetRejects(id, size, array) == id < 0 \/ id > size \/ array = <<>>

\* what a read of keyword_ctxs_array[id] can yield: the slot, or for an
\* index past the end whatever lies behind the array
ArrayRead(array, id) ==
    IF id < Len(array) THEN {array[id + 1]} ELSE 0..(MaxKeywords + 1)

\* DetectThreadCtxGetKeywordThreadCtx (1564-1570)
DetectThreadCtxGetKeywordThreadCtx(id) ==
    /\ ~aborted /\ CtxLive
    /\ get_arg' = id
    /\ IF GetRejects(id, keyword_ctxs_size, keyword_ctxs_array)
       THEN get_ret' = NULL /\ get_idx' = -1
       ELSE get_ret' \in ArrayRead(keyword_ctxs_array, id) /\ get_idx' = id
    /\ UNCHANGED <<keyword_ctxs_array, keyword_ctxs_size, init_ret, h_init_null>>
    /\ KeywordUnchanged

\* DetectEngineThreadCtxDeinitKeywords (1214-1228) in
\* DetectEngineThreadCtxDeinit: the walk reads the slot of every item
DetectEngineThreadCtxDeinitKeywords ==
    /\ ~aborted /\ CtxLive
    /\ IF keyword_id > 0 /\ keyword_list # <<>> /\ keyword_ctxs_array = <<>>
       THEN /\ init_ret' = "SIGSEGV"
            /\ UNCHANGED <<keyword_ctxs_array, keyword_ctxs_size, h_init_null>>
       ELSE /\ init_ret' = "none"
            /\ keyword_ctxs_array' = <<>>
            /\ keyword_ctxs_size' = 0
            /\ h_init_null' = FALSE
    /\ UNCHANGED <<get_arg, get_ret, get_idx>>
    /\ KeywordUnchanged

(***************************************************************************)
(* The configuration of a new engine context: DetectEngineCtxInitReal      *)
(* (705-803) and DetectEngineCtxLoadConf (914-1171).  An optional value of *)
(* the configuration is <<>> when its key is absent and <<v>> when it has  *)
(* the value v; a value that is parsed as a number is the sequence of its  *)
(* characters.  The eight group limits are kept in the order toclient      *)
(* src, dst, sp, dp, toserver src, dst, sp, dp.                            *)
(***************************************************************************)
DETECT_ENGINE_DEFAULT_INSPECTION_RECURSION_LIMIT == 3000

DigitChars == <<"0", "1", "2", "3", "4", "5", "6", "7", "8", "9">>
IsDigit(c) == \E k \in 1..10 : DigitChars[k] = c

\* the value of the digits of str from position k on, after the digits of
\* value acc; -1 when it does not fit an int
RECURSIVE DigitsValue(_, _, _)
DigitsValue(str, k, acc) ==
    IF k > Len(str) \/ ~IsDigit(str[k]) THEN acc
    ELSE LET d == (CHOOSE j \in 1..10 : DigitChars[j] = str[k]) - 1 IN
         IF acc > (INT32_MAX - d) \div 10 THEN -1
         ELSE DigitsValue(str, k + 1, acc * 10 + d)

\* the text of an integer in base 10
RECURSIVE Decimal(_)
Decimal(n) ==
    IF n < 0 THEN <<"-">> \o Decimal(-n)
    ELSE IF n < 10 THEN <<DigitChars[n + 1]>>
    ELSE Decimal(n \div 10) \o <<DigitChars[(n % 10) + 1]>>

\* atoi (755): white space, an optional sign, then digits up to the first
\* other character; the values it can return, a value that does not fit an
\* int being undefined
atoi(str) ==
    LET skip == CHOOSE k \in 1..(Len(str) + 1) :
                    /\ \A j \in 1..(k - 1) : str[j] = " "
                    /\ k = Len(str) + 1 \/ str[k] # " "
        signed == skip <= Len(str) /\ str[skip] \in {"-", "+"}
        v == DigitsValue(str, IF signed THEN skip + 1 ELSE skip, 0)
    IN IF v = -1 THEN {INT32_MIN, -1, 0, INT32_MAX}
       ELSE IF signed /\ str[skip] = "-" THEN {-v} ELSE {v}

\* ByteExtractStringUint16(&res, 10, strlen(str), str): the number of
\* characters parsed and the value stored, -1 when str is not an unsigned
\* 16-bit number in base 10
ByteExtractStringUint16(str) ==
    IF /\ Len(str) > 0
       /\ \A k \in 1..Len(str) : IsDigit(str[k])
       /\ DigitsValue(str, 1, 0) \in 0..65535
    THEN [ret |-> Len(str), res |-> DigitsValue(str, 1, 0)]
    ELSE [ret |-> -1, res |-> 0]

\* inspection_recursion_limit for the value read or defaulted (761-762)
RecursionLimit_Keep(v) == v
RecursionLimit(v) == IF v = 0 THEN -1 ELSE v

\* the profile for detect-engine.profile (942-953)
Profile(de_ctx_profile) ==
    IF de_ctx_profile = <<"low">> THEN "ENGINE_PROFILE_LOW"
    ELSE IF de_ctx_profile = <<"medium">> THEN "ENGINE_PROFILE_MEDIUM"
    ELSE IF de_ctx_profile = <<"high">> THEN "ENGINE_PROFILE_HIGH"
    ELSE IF de_ctx_profile = <<"custom">> THEN "ENGINE_PROFILE_CUSTOM"
    ELSE "ENGINE_PROFILE_UNKNOWN"

\* the values the custom profile falls back to, field by field (1048-1148)
CustomDefault_Low == <<2, 2, 2, 3, 2, 2, 2, 3>>
CustomDefault == <<4, 4, 4, 6, 4, 8, 4, 30>>

\* the switch on the profile (1002-1166)
GroupLimits(profile, custom) ==
    IF profile = "ENGINE_PROFILE_LOW" THEN <<2, 2, 2, 3, 2, 2, 2, 3>>
    ELSE IF profile = "ENGINE_PROFILE_HIGH"
    THEN <<15, 15, 15, 20, 15, 15, 15, 40>>
    ELSE IF profile = "ENGINE_PROFILE_CUSTOM"
    THEN [k \in 1..8 |->
             IF custom[k] # <<>> /\ ByteExtractStringUint16(custom[k][1]).ret > 0
             THEN ByteExtractStringUint16(custom[k][1]).res
             ELSE CustomDefault[k]]
    ELSE <<4, 4, 4, 6, 4, 8, 4, 30>>

\* sgh_mpm_context for detect-engine.sgh-mpm-context in a build without
\* CUDA, "exit" when the value is none of auto, single and full (962-999)
SghMpmContext(sgh_mpm_context, mpm_matcher) ==
    IF sgh_mpm_context \notin {<<>>, <<"auto">>, <<"single">>, <<"full">>}
    THEN "exit"
    ELSE IF RunmodeIsUnittests THEN "ENGINE_SGH_MPM_FACTORY_CONTEXT_FULL"
    ELSE IF sgh_mpm_context \in {<<>>, <<"auto">>}
    THEN (IF mpm_matcher \in {"DEFAULT_MPM", "MPM_AC_GFBS", "MPM_AC_BS"}
          THEN "ENGINE_SGH_MPM_FACTORY_CONTEXT_SINGLE"
          ELSE "ENGINE_SGH_MPM_FACTORY_CONTEXT_FULL")
    ELSE IF sgh_mpm_context = <<"single">>
    THEN "ENGINE_SGH_MPM_FACTORY_CONTEXT_SINGLE"
    ELSE "ENGINE_SGH_MPM_FACTORY_CONTEXT_FULL"

\* no call made yet, and the engine context after the memset (718)
NoConf ==
    [profile |-> <<>>, limit |-> <<>>, sgh |-> <<>>,
     custom |-> [k \in 1..8 |-> <<>>], mpm_matcher |-> "DEFAULT_MPM"]
NoCtx ==
    [state |-> "none", inspection_recursion_limit |-> 0,
     max_uniq_groups |-> [k \in 1..8 |-> 0], sgh_mpm_context |-> "0"]

\* the configurations the model builds engine contexts from: every profile
\* with every text of the recursion limit and of the context mode, and the
\* custom profile with every field absent, unparsable or a number, and
\* with one field a number that does not fit 16 bits
ConfInputs ==
    LET limits == {<<>>} \cup
                  {<<Decimal(n)>> : n \in {0, 10, 3000, -5}} \cup
                  {<< <<>> >>, << <<"B", "A">> >>, << <<" ", "7">> >>,
                   << <<"1", "2", "x">> >>, << <<"+", "3">> >>,
                   << <<"0", "0">> >>, << Decimal(INT32_MAX) \o <<"0">> >>}
        value(k, v) == IF v = 0 THEN <<>>
                       ELSE IF v = 1 THEN << <<"B", "A">> >>
                       ELSE IF v = 2 THEN <<Decimal(19 + k)>>
                       ELSE <<Decimal(65536)>>
    IN [profile : {<<>>, <<"low">>, <<"medium">>, <<"high">>, <<"custom">>,
                   <<"bogus">>},
        limit : limits,
        sgh : {<<>>, <<"auto">>, <<"single">>, <<"full">>, <<"bogus">>},
        custom : {NoConf.custom},
        mpm_matcher : {"DEFAULT_MPM", "MPM_B2G"}]
       \cup
       {[NoConf EXCEPT !.profile = <<"custom">>,
                       !.custom = [k \in 1..8 |-> value(k, f[k])]] :
           f \in [1..8 -> 0..2]}
       \cup
       {[NoConf EXCEPT !.profile = <<"custom">>,
                       !.custom = [k \in 1..8 |->
                                      value(k, IF k = j THEN 3 ELSE 2)]] :
           j \in 1..8}

\* DetectEngineCtxInitReal (705-803) with the configuration c
DetectEngineCtxInitReal(minimal, c) ==
    /\ de_cfg.state = "none"
    /\ conf' = c
    /\ \/ \* SCMalloc returns NULL (714-716), or the pattern id store or
          \* the action configuration fails (785-798)
          de_cfg' = [NoCtx EXCEPT !.state = "NULL"]
       \/ /\ minimal = 1
          /\ de_cfg' = [NoCtx EXCEPT !.state = "minimal"]
       \/ /\ minimal = 0
          /\ \E v \in (IF c.limit = <<>>
                       THEN {DETECT_ENGINE_DEFAULT_INSPECTION_RECURSION_LIMIT}
                       ELSE atoi(c.limit[1])) :
                LET sgh == SghMpmContext(c.sgh, c.mpm_matcher) IN
                de_cfg' =
                    IF sgh = "exit"
                    THEN [NoCtx EXCEPT !.state = "exit",
                                       !.inspection_recursion_limit =
                                           RecursionLimit(v)]
                    ELSE [state |-> "built",
                          inspection_recursion_limit |-> RecursionLimit(v),
                          max_uniq_groups |-> GroupLimits(Profile(c.profile),
                                                          c.custom),
                          sgh_mpm_context |-> sgh]
    /\ UNCHANGED <<registerVars, keywordVars, latchVars, masterVars,
                   workerVars, reloadVars, callerVars>>

(***************************************************************************)
(* Initial state: the engine has started.  Engine context 1 is the only    *)
(* one on the active list, every detect worker runs a thread context that  *)
(* holds one reference on it (DetectEngineThreadCtxInit, 1332) and has     *)
(* inspected packets with it, and other modules hold ext_ref[1]            *)
(* references taken with DetectEngineGetCurrent.                           *)
(***************************************************************************)
Init ==
    /\ sync_state = IDLE
    /\ sync_m = 0
    /\ lpc = [t \in LThreads |-> "out"]
    /\ lop = [t \in LThreads |-> "none"]
    /\ lret = [t \in LThreads |-> 0]
    /\ lpre = [t \in LThreads |-> IDLE]
    /\ h_done_taken = 0
    /\ h_req_ok = 0
    /\ tm_detect \in [Workers -> BOOLEAN]
    /\ list = 1
    /\ free_list = NULL
    /\ next = [s \in Snap |-> NULL]
    /\ ext_ref \in [Snap -> 0..MaxExtRef]
    /\ \A s \in Snap : s # 1 => ext_ref[s] = 0
    /\ ref_cnt = [s \in Snap |-> IF s = 1 THEN Cardinality(DetectTvs) + ext_ref[1]
                                ELSE 0]
    /\ de_state = [s \in Snap |-> IF s = 1 THEN "live" ELSE "free"]
    /\ pending = NULL
    /\ aborted = FALSE
    /\ ctx_state = [c \in Ctx |-> IF \E w \in DetectTvs : c = CtxId(w, 1)
                                  THEN "live" ELSE "free"]
    /\ ctx_de = [c \in Ctx |-> IF \E w \in DetectTvs : c = CtxId(w, 1)
                               THEN 1 ELSE NULL]
    /\ ctx_used = [c \in Ctx |-> IF \E w \in DetectTvs : c = CtxId(w, 1)
                                 THEN 1 ELSE 0]
    /\ slot_data = [w \in Workers |-> IF tm_detect[w] THEN CtxId(w, 1) ELSE NULL]
    /\ wpc = [w \in Workers |-> "idle"]
    /\ wcur = [w \in Workers |-> NULL]
    /\ running_done = [w \in Workers |-> FALSE]
    /\ inq = {}
    /\ suricata_ctl_flags = 0
    /\ tv_root_lock = 0
    /\ rpc = "idle"
    /\ old_de_ctx = NULL
    /\ new_de_ctx = NULL
    /\ no_of_detect_tvs = 0
    /\ i = 0
    /\ tvi = 0
    /\ old_det_ctx = Zeros
    /\ new_det_ctx = Zeros
    /\ detect_tvs = Zeros
    /\ pseudo_pkt_inserted = 0
    /\ threads_ret = -2
    /\ reload_ret = -2
    /\ g = NoGhost
    /\ api_op = "none"
    /\ api_ret = -2
    /\ master_lock = 0
    /\ cpc = [t \in Callers |-> "out"]
    /\ ctmp = [t \in Callers |-> 0]
    /\ carg = [t \in Callers |-> NULL]
    /\ cown = [t \in Callers |-> NULL]
    /\ ncalls = [t \in Callers |-> 0]
    /\ h_net = [s \in Snap |-> 0]
    /\ app_inspection_engine = EmptyTable
    /\ exited = "no"
    /\ reg_arg = NoArg
    /\ reg_ret = "none"
    /\ nregs = 0
    /\ keyword_list = <<>>
    /\ keyword_id = 0
    /\ kw_arg = NoKeyword
    /\ kw_ret = -2
    /\ keyword_ctxs_array = <<>>
    /\ keyword_ctxs_size = 0
    /\ init_ret = "none"
    /\ h_init_null = FALSE
    /\ get_arg = 0
    /\ get_ret = NULL
    /\ get_idx = -1
    /\ conf = NoConf
    /\ de_cfg = NoCtx

\* the control thread calls DetectEngineReload until the engine is asked to
\* stop; a shutdown requested later finds the reload in progress
ReloadCalled == suricata_ctl_flags = 0

\* reloads running against the packet workers, with other modules
\* releasing their references between reloads
Next ==
    \/ \E s \in Snap : ApiDeReference(s)
    \/ ReloadCalled /\ ReloadConfFail
    \/ ReloadCalled /\ ReloadGetCurrent
    \/ ReloadInit
    \/ ReloadAddToMaster
    \/ ReloadMoveToFreeList
    \/ ReloadDeReference
    \/ ThreadsCount
    \/ ThreadsBuild
    \/ ThreadsError
    \/ ThreadsPublish
    \/ ThreadsAdopt
    \/ ThreadsWaitDone
    \/ ThreadsFree
    \/ ReloadPrune
    \/ ReloadReturn
    \/ \E w \in Workers : WorkerLoad(w)
    \/ \E w \in Workers : WorkerDetect(w)
    \/ \E w \in Workers : WorkerRunningDone(w)
    \/ EngineStop

Spec == Init /\ [][Next]_vars

\* the sync latch driven by its callers alone
NextLatch ==
    \/ \E t \in LThreads, op \in LatchOps :
          LatchCall(t, op) /\ UNCHANGED <<masterVars, workerVars, reloadVars, callerVars, registerVars, keywordVars, confVars>>
    \/ \E t \in LThreads :
          SCMutexLock_sync(t) /\ UNCHANGED <<masterVars, workerVars, reloadVars, callerVars, registerVars, keywordVars, confVars>>
    \/ \E t \in LThreads :
          DetectEngineReloadStart(t) /\ UNCHANGED <<masterVars, workerVars, reloadVars, callerVars, registerVars, keywordVars, confVars>>
    \/ \E t \in LThreads :
          DetectEngineReloadIsStart(t) /\ UNCHANGED <<masterVars, workerVars, reloadVars, callerVars, registerVars, keywordVars, confVars>>
    \/ \E t \in LThreads :
          DetectEngineReloadSetDone(t) /\ UNCHANGED <<masterVars, workerVars, reloadVars, callerVars, registerVars, keywordVars, confVars>>
    \/ \E t \in LThreads :
          DetectEngineReloadIsDone(t) /\ UNCHANGED <<masterVars, workerVars, reloadVars, callerVars, registerVars, keywordVars, confVars>>

InitLatch ==
    /\ Init
    /\ tm_detect = [w \in Workers |-> FALSE]
    /\ ext_ref = [s \in Snap |-> 0]

SpecLatch == InitLatch /\ [][NextLatch]_vars

\* the master registry driven by its operations and by reloads while no
\* packet thread has a detect slot (unix socket mode, 538-541)
InitMaster == Init /\ tm_detect = [w \in Workers |-> FALSE]

NextMaster ==
    \/ ApiCtxInit
    \/ \E de \in {NULL} \cup Snap : ApiAddToMaster(de)
    \/ \E de \in Snap : ApiMoveToFreeList(de)
    \/ ApiPruneFreeList
    \/ ApiGetCurrent
    \/ \E s \in Snap : ApiDeReference(s)
    \/ ReloadGetCurrent
    \/ ReloadInit
    \/ ReloadAddToMaster
    \/ ReloadMoveToFreeList
    \/ ReloadDeReference
    \/ ThreadsCount
    \/ ReloadPrune
    \/ ReloadReturn

SpecMaster == InitMaster /\ [][NextMaster]_vars

\* the registry called by several threads at once
NextCallers ==
    \/ \E t \in Callers : GetCurrentLock(t)
    \/ \E t \in Callers : GetCurrentLoad(t)
    \/ \E t \in Callers : GetCurrentStore(t)
    \/ \E t \in Callers : GetCurrentReturn(t)
    \/ \E t \in Callers, s \in Snap : ReferenceLoad(t, s)
    \/ \E t \in Callers : ReferenceStore(t)
    \/ \E t \in Callers : DeReferenceLoad(t)
    \/ \E t \in Callers : DeReferenceStore(t)
    \/ \E t \in Callers : CallerAddToMaster(t)
    \/ \E t \in Callers, de \in Snap : CallerMoveToFreeList(t, de)

\* no packet thread has a detect slot and no reference is held at the start
InitCallers ==
    /\ Init
    /\ tm_detect = [w \in Workers |-> FALSE]
    /\ ext_ref = [s \in Snap |-> 0]

SpecCallers == InitCallers /\ [][NextCallers]_vars

\* registrations in the table of app inspection engines: the start-up
\* registration of the built-in engines and calls of other modules
NextRegister ==
    \/ DetectEngineRegisterAppInspectionEngines
    \/ \E a \in RegArgs : DetectEngineRegisterAppInspectionEngine(TRUE, a)
    \/ \E a \in InvalidArgs : DetectEngineRegisterAppInspectionEngine(FALSE, a)

InitRegister ==
    /\ Init
    /\ tm_detect = [w \in Workers |-> FALSE]
    /\ ext_ref = [s \in Snap |-> 0]

SpecRegister == InitRegister /\ [][NextRegister]_vars

\* an engine context whose keywords are registered, and a thread context
\* built for it, used and destroyed
NextKeyword ==
    \/ \E ok \in BOOLEAN, name \in KeywordNames, mode \in 0..1 :
          DetectRegisterThreadCtxFuncs(ok, name, mode)
    \/ \E reload \in BOOLEAN : ThreadCtxDoInit(reload)
    \/ \E id \in -1..(MaxKeywords + 1) : DetectThreadCtxGetKeywordThreadCtx(id)
    \/ DetectEngineThreadCtxDeinitKeywords

InitKeyword ==
    /\ Init
    /\ tm_detect = [w \in Workers |-> FALSE]
    /\ ext_ref = [s \in Snap |-> 0]

SpecKeyword == InitKeyword /\ [][NextKeyword]_vars

\* engine contexts built from a configuration: DetectEngineCtxInit and
\* DetectEngineCtxInitMinimal (806-814)
NextConf ==
    \/ \E c \in ConfInputs : DetectEngineCtxInitReal(0, c)
    \/ DetectEngineCtxInitReal(1, NoConf)

SpecConf == InitKeyword /\ [][NextConf]_vars

(***************************************************************************)
(* Properties of the sync latch, checked under SpecLatch.                  *)
(***************************************************************************)
\* thread t leaves operation op in this step
Completes(t, op) == lpc[t] = "in" /\ lop[t] = op /\ lpc'[t] = "out"

\* a step in which a DetectEngineReloadIsDone call returns
C3_IsDoneStep ==
    \A t \in LThreads : Completes(t, "IsDone") =>
        IF sync_state = DONE
        THEN lret'[t] = 1 /\ sync_state' = IDLE
        ELSE lret'[t] = 0 /\ sync_state' = sync_state

\* C3: DetectEngineReloadIsDone returns 1 at most once per Done episode
\* (never again until a DetectEngineReloadSetDone puts the latch in DONE
\* anew); a call made in DONE returns 1 and sets IDLE, so the first poll of
\* an episode is the one that returns 1, and a call made in any other state
\* returns 0 and leaves the state as it is.
C3_ConsumeDoneOnce ==
    /\ [](h_done_taken <= 1 /\ (sync_state = DONE => h_done_taken = 0))
    /\ [][C3_IsDoneStep]_vars

\* two pollers of one Done episode: one got 1, the other 0
C3_Witness ==
    \E t1, t2 \in LThreads :
        /\ t1 # t2
        /\ lpc[t1] = "out" /\ lop[t1] = "IsDone" /\ lret[t1] = 1 /\ lpre[t1] = DONE
        /\ lpc[t2] = "out" /\ lop[t2] = "IsDone" /\ lret[t2] = 0 /\ lpre[t2] = IDLE
        /\ h_done_taken = 1

\* a step in which a DetectEngineReloadStart call returns
C4_StartStep ==
    \A t \in LThreads : Completes(t, "Start") =>
        IF sync_state = IDLE
        THEN lret'[t] = 0 /\ sync_state' = RELOAD
        ELSE lret'[t] = -1 /\ sync_state' = sync_state

\* C4: DetectEngineReloadStart returns 0 and moves the latch to RELOAD iff
\* the latch is IDLE; in RELOAD or DONE it returns -1 and changes nothing;
\* at most one call succeeds until a DetectEngineReloadIsDone returned 1.
C4_RequestReload ==
    /\ [](h_req_ok <= 1)
    /\ [][C4_StartStep]_vars

\* two requesters: one succeeded, the other was refused while the reload
\* was pending or done
C4_Witness ==
    \E t1, t2 \in LThreads :
        /\ t1 # t2
        /\ lpc[t1] = "out" /\ lop[t1] = "Start" /\ lret[t1] = 0
        /\ lpc[t2] = "out" /\ lop[t2] = "Start" /\ lret[t2] = -1
        /\ lpre[t2] \in {RELOAD, DONE}
        /\ h_req_ok = 1

\* a change of the latch state along one of the three edges of the cycle
C5_ThreeEdges ==
    sync_state' # sync_state =>
        \E t \in LThreads :
            \/ Completes(t, "Start") /\ sync_state = IDLE /\ sync_state' = RELOAD
            \/ Completes(t, "SetDone") /\ sync_state = RELOAD /\ sync_state' = DONE
            \/ Completes(t, "IsDone") /\ sync_state = DONE /\ sync_state' = IDLE

\* C5 as stated: every change of the latch state is IDLE->RELOAD made by
\* Start, RELOAD->DONE made by SetDone or DONE->IDLE made by IsDone.
C5_OnlyThreeEdges == [][C5_ThreeEdges]_vars

\* a change of the latch state along an edge the four operations have
C5_Edges ==
    sync_state' # sync_state =>
        \E t \in LThreads :
            \/ Completes(t, "Start") /\ sync_state = IDLE /\ sync_state' = RELOAD
            \/ Completes(t, "SetDone") /\ sync_state' = DONE
            \/ Completes(t, "IsDone") /\ sync_state = DONE /\ sync_state' = IDLE

\* C5 (amended): every change of the latch state is IDLE->RELOAD made by
\* Start, a change to DONE made by SetDone from IDLE or RELOAD, or
\* DONE->IDLE made by IsDone; Start outside IDLE, IsDone outside DONE and
\* IsStart in any state leave the state unchanged.
C5_LatchEdges == [][C5_Edges]_vars

\* SetDone was called on an idle latch and has put it in DONE
C5_Witness ==
    \E t \in LThreads :
        /\ lpc[t] = "out" /\ lop[t] = "SetDone" /\ lpre[t] = IDLE
        /\ sync_state = DONE

(***************************************************************************)
(* Properties of the registry calls, checked under SpecMaster (one caller) *)
(* and SpecCallers (several callers).                                      *)
(***************************************************************************)
\* a DetectEngineGetCurrent call returns to thread t
C11_ReturnStep ==
    \A t \in Callers :
        (cpc[t] = "gc_ret" /\ cpc'[t] = "out") => cown'[t] = carg[t]

\* C11 as stated: whatever another thread's DetectEngineAddToMaster and
\* DetectEngineMoveToFreeList calls do meanwhile, the engine context
\* DetectEngineGetCurrent returns is the one whose ref_cnt it incremented.
C11_ReturnsIncremented == [][C11_ReturnStep]_vars

\* the control thread's DetectEngineGetCurrent call, run in one step
C12_GetCurrentStep ==
    ReloadGetCurrent =>
        /\ <<list', free_list', next'>> = <<list, free_list, next>>
        /\ IF list = NULL
           THEN old_de_ctx' = NULL /\ ref_cnt' = ref_cnt
           ELSE /\ old_de_ctx' = list
                /\ ref_cnt' = [ref_cnt EXCEPT ![list] = @ + 1]

\* C12: DetectEngineGetCurrent run without interference adds exactly 1 to
\* the ref_cnt of the head of the active list and returns that head; with
\* an empty active list it returns NULL and changes no ref_cnt and no list.
C12_GetCurrentAlone == [][C12_GetCurrentStep]_vars

\* the call has returned the head, which another module also holds
C12_Witness ==
    /\ rpc = "r_init" /\ old_de_ctx = list /\ list # NULL
    /\ g.ref0 >= 1 /\ ref_cnt[list] = g.ref0 + 1

\* the effect of DetectEngineAddToMaster(de) on the registry
AddedAtHead(de) ==
    /\ list' = de
    /\ Walk(list', next', MaxSnap + 1) = <<de>> \o ActiveList
    /\ Walk(free_list', next', MaxSnap + 1) = FreeList
    /\ ref_cnt' = ref_cnt

C13_AddStep ==
    /\ \A de \in {NULL} \cup Snap : ApiAddToMaster(de) =>
          IF de = NULL
          THEN /\ api_ret' = -1
               /\ <<list', free_list', next', ref_cnt'>> =
                     <<list, free_list, next, ref_cnt>>
          ELSE api_ret' = 0 /\ AddedAtHead(de)
    /\ ReloadAddToMaster => AddedAtHead(new_de_ctx)

\* C13: DetectEngineAddToMaster(s) with a non-NULL, unlinked s returns 0 and
\* makes s the head of the active list, followed by the previously active
\* engine contexts in their order, with the free list and every ref_cnt
\* unchanged; DetectEngineAddToMaster(NULL) returns -1 and changes nothing.
C13_AddToMaster == [][C13_AddStep]_vars

\* an engine context was added in front of two others
C13_Witness ==
    /\ api_op = "AddToMaster" /\ api_ret = 0
    /\ Len(ActiveList) >= 3

\* the effect of DetectEngineMoveToFreeList(de) on the registry
C14_MoveStep ==
    \A de \in Snap : ApiMoveToFreeList(de) =>
        LET Other(x) == x # de IN
        IF de \in SeqSet(ActiveList)
        THEN /\ api_ret' = 0
             /\ Walk(list', next', MaxSnap + 1) = SelectSeq(ActiveList, Other)
             /\ Walk(free_list', next', MaxSnap + 1) = <<de>> \o FreeList
             /\ ref_cnt' = ref_cnt
        ELSE /\ api_ret' = -1
             /\ <<list', free_list', next'>> = <<list, free_list, next>>

\* C14: DetectEngineMoveToFreeList(s) with s on the active list returns 0,
\* takes s out of the active list keeping the order of the others and makes
\* s the head of the free list with its ref_cnt unchanged; with s not on
\* the active list it returns -1 and leaves both lists as they are.
C14_MoveToFreeList == [][C14_MoveStep]_vars

\* a referenced engine context was moved in front of another on the free
\* list, with an engine context still active
C14_Witness ==
    /\ api_op = "MoveToFreeList" /\ api_ret = 0
    /\ Len(FreeList) >= 2 /\ Len(ActiveList) >= 1
    /\ ref_cnt[free_list] >= 1

\* C15 as stated: when no DetectEngineReference, DetectEngineDeReference or
\* DetectEngineGetCurrent call is in progress, every ref_cnt is its initial
\* value plus the increments minus the decrements made so far.
C15_NoLostUpdate ==
    (\A t \in Callers : cpc[t] = "out") =>
        \A s \in Snap : ref_cnt[s] = ext_ref[s] + h_net[s]

(***************************************************************************)
(* Properties of the reload against the workers, checked under Spec.       *)
(***************************************************************************)
AllRunningDone == \A w \in DetectTvs : running_done[w]

\* DetectEngineReload has returned 0 and DetectEngineReloadThreads neither
\* failed to build a context nor saw the shutdown flag
ReloadCompleted ==
    /\ rpc = "r_ret" /\ reload_ret = 0
    /\ threads_ret \in {0, 1}
    /\ suricata_ctl_flags = 0

\* C1: when the control thread destroys the old thread contexts (phase 6),
\* every worker has marked its new context as used, or every detect worker
\* has set THV_RUNNING_DONE; and no worker is ever working on a thread
\* context that has been destroyed.
C1_DestroyAfterAdoption ==
    /\ rpc = "t_free" =>
          \/ \A k \in 1..no_of_detect_tvs : ctx_used[new_det_ctx[k]] = 1
          \/ AllRunningDone
    /\ \A w \in DetectTvs : wpc[w] = "busy" =>
          /\ wcur[w] # NULL
          /\ ctx_state[wcur[w]] = "live"

\* all old contexts are destroyed while a worker is inspecting a packet
\* with its new context
C1_Witness ==
    /\ rpc = "t_free" /\ i = no_of_detect_tvs /\ no_of_detect_tvs >= 2
    /\ \A k \in 1..no_of_detect_tvs : ctx_state[old_det_ctx[k]] = "free"
    /\ \E k \in 1..no_of_detect_tvs :
          /\ wpc[detect_tvs[k]] = "busy"
          /\ wcur[detect_tvs[k]] = new_det_ctx[k]

\* C2: after a reload that completed without shutdown or build failure,
\* the new engine is the head of the active list, the old one is off the
\* active list (on the free list or already pruned from it), and every
\* detect slot holds a context of the new engine whose used flag is set.
C2_ReloadPostcondition ==
    ReloadCompleted =>
        /\ list = new_de_ctx
        /\ new_de_ctx # g.old
        /\ g.old \notin SeqSet(ActiveList)
        /\ g.old \in SeqSet(FreeList) \/ de_state[g.old] = "free"
        /\ \A w \in DetectTvs :
              /\ slot_data[w] # NULL
              /\ ctx_state[slot_data[w]] = "live"
              /\ ctx_de[slot_data[w]] = new_de_ctx
              /\ ctx_used[slot_data[w]] = 1

\* a reload with at least two detect workers, all on the old engine, completed
C2_Witness ==
    /\ ReloadCompleted /\ threads_ret = 1 /\ g.on_old
    /\ Cardinality(DetectTvs) >= 2

\* the step in which a BUG_ON stops the process
C8_AbortStep == (aborted' /\ ~aborted) => ref_cnt' = ref_cnt

\* C8: the reference count never wraps below 0, and the step in which a
\* DeReference finds the count at 0 stops the process without changing
\* any count.
C8_RefCntNonNegative ==
    /\ [](\A s \in Snap : ref_cnt[s] >= 0)
    /\ [][C8_AbortStep]_vars

\* a DeReference on a count of 0 was rejected
C8_Witness == aborted /\ \E s \in Snap : de_state[s] = "live" /\ ref_cnt[s] = 0

\* C9 as stated: after a successful reload with N detect workers the
\* previous engine's ref_cnt is its value at the call minus N.
C9_RefDropsByN ==
    (ReloadCompleted /\ threads_ret = 1) =>
        ref_cnt[g.old] = g.ref0 - no_of_detect_tvs

\* C10 as stated: the previous engine had ref_cnt 1 + N at the call; after
\* the reload completed and pruned the free list it has been destroyed and
\* is on neither list.
C10_ReleasedFromOnePlusN ==
    (ReloadCompleted /\ g.on_old /\ g.ref0 = 1 + Cardinality(DetectTvs)) =>
        /\ de_state[g.old] = "free"
        /\ g.old \notin SeqSet(ActiveList) \cup SeqSet(FreeList)

\* C10 (amended): the previous engine had ref_cnt N at the call, one
\* reference per detect worker's thread context; after the reload completed
\* and pruned the free list it has been destroyed and is on neither list.
C10_ReleasedFromN ==
    (ReloadCompleted /\ g.on_old /\ g.ref0 = Cardinality(DetectTvs)) =>
        /\ de_state[g.old] = "free"
        /\ g.old \notin SeqSet(ActiveList) \cup SeqSet(FreeList)

\* such a reload with two detect workers has completed
C10_Witness ==
    /\ ReloadCompleted /\ threads_ret = 1 /\ g.on_old
    /\ g.ref0 = Cardinality(DetectTvs) /\ g.ref0 >= 2
    /\ de_state[g.old] = "free"

(***************************************************************************)
(* Properties of the master registry, checked under SpecMaster.            *)
(***************************************************************************)
NoDup(q) == \A a, b \in 1..Len(q) : a # b => q[a] # q[b]
KeepsRef(s) == ref_cnt[s] # 0

\* the effect of one DetectEnginePruneFreeList call on the free list
C6_PruneStep ==
    (ApiPruneFreeList \/ ReloadPrune) =>
        /\ Walk(free_list', next', MaxSnap + 1) = SelectSeq(FreeList, KeepsRef)
        /\ \A s \in Snap :
              de_state'[s] = IF s \in SeqSet(FreeList) /\ ref_cnt[s] = 0
                             THEN "free" ELSE de_state[s]

\* C6 as stated: a prune leaves on the free list exactly the nodes whose
\* ref_cnt was not 0, in their order, and destroys exactly the others.
C6_PruneExact == [][C6_PruneStep]_vars

\* C7: the active list and the free list have no node in common, no node
\* occurs twice in either (both are acyclic), and every node on a list is a
\* live engine context.
C7_ListsDisjoint ==
    /\ NoDup(ActiveList)
    /\ NoDup(FreeList)
    /\ SeqSet(ActiveList) \cap SeqSet(FreeList) = {}
    /\ \A s \in SeqSet(ActiveList) \cup SeqSet(FreeList) : de_state[s] = "live"

\* both lists are populated, the active list with two engines
C7_Witness ==
    /\ Len(ActiveList) >= 2
    /\ Len(FreeList) >= 1

(***************************************************************************)
(* Properties of the slot exchange and of the failure paths of a reload,   *)
(* checked under Spec.                                                     *)
(***************************************************************************)
\* the thread contexts built for worker w
CtxOf(w) == {CtxId(w, s) : s \in Snap}

\* C16: from the moment phase 2 has captured old_det_ctx[k] from the slot
\* of a detect worker, the slot holds old_det_ctx[k] or the new_det_ctx[k]
\* built for that worker, never NULL, a destroyed context or another
\* worker's; a worker inspecting a packet works on one of these two, and
\* that context is live.
C16_OldOrNew ==
    \A k \in 1..NWorkers : old_det_ctx[k] # NULL =>
        LET w == detect_tvs[k] IN
        /\ slot_data[w] # NULL
        /\ slot_data[w] \in {old_det_ctx[k], new_det_ctx[k]}
        /\ slot_data[w] \in CtxOf(w)
        /\ ctx_state[slot_data[w]] = "live"
        /\ wpc[w] = "busy" =>
              /\ wcur[w] # NULL
              /\ wcur[w] \in {old_det_ctx[k], new_det_ctx[k]}
              /\ wcur[w] \in CtxOf(w)
              /\ ctx_state[wcur[w]] = "live"

\* in the middle of phase 3 one slot holds the new context, another still
\* the old one, and a worker is inspecting a packet with its old context
C16_Witness ==
    /\ rpc = "t_publish"
    /\ \E k1, k2 \in 1..no_of_detect_tvs :
          /\ slot_data[detect_tvs[k1]] = new_det_ctx[k1]
          /\ slot_data[detect_tvs[k2]] = old_det_ctx[k2]
          /\ wpc[detect_tvs[k1]] = "busy"
          /\ wcur[detect_tvs[k1]] = old_det_ctx[k1]

\* a step that changes a detect slot
C17_StoreStep ==
    \A w \in Workers : slot_data'[w] # slot_data[w] =>
        /\ rpc = "t_publish"
        /\ \A k \in 1..no_of_detect_tvs :
              /\ new_det_ctx[k] # NULL
              /\ ctx_state[new_det_ctx[k]] = "live"
              /\ ctx_de[new_det_ctx[k]] = new_de_ctx
        /\ \E k \in 1..no_of_detect_tvs :
              /\ detect_tvs[k] = w
              /\ slot_data'[w] = new_det_ctx[k]
        /\ ctx_used[slot_data'[w]] = 0

\* C17: a detect slot is changed only in phase 3, when the contexts of all
\* detect workers have been built and are bound to the new engine context,
\* and the context stored has its used flag clear; while the error path of
\* a failed build runs, every captured slot still holds its old context.
C17_PublishAfterInit ==
    /\ [](rpc = "t_error" =>
             \A k \in 1..NWorkers : old_det_ctx[k] # NULL =>
                 slot_data[detect_tvs[k]] = old_det_ctx[k])
    /\ [][C17_StoreStep]_vars

\* the first of two new contexts has been stored, not yet used
C17_Witness ==
    /\ rpc = "t_publish" /\ i = 1 /\ no_of_detect_tvs >= 2
    /\ slot_data[detect_tvs[1]] = new_det_ctx[1]
    /\ ctx_used[new_det_ctx[1]] = 0
    /\ slot_data[detect_tvs[2]] = old_det_ctx[2]

\* DetectEngineReloadThreads has run through phase 6
ThreadsCompleted == rpc \in {"r_prune", "r_ret"} /\ threads_ret = 1

\* C18: after phase 6 every old context captured in phase 2 has been
\* destroyed, every detect slot holds the live context built for it in this
\* reload, and no new context is one of the old ones.
C18_ContextsReplaced ==
    ThreadsCompleted =>
        \A k \in 1..no_of_detect_tvs :
            /\ ctx_state[old_det_ctx[k]] = "free"
            /\ slot_data[detect_tvs[k]] = new_det_ctx[k]
            /\ ctx_state[new_det_ctx[k]] = "live"
            /\ \A j \in 1..no_of_detect_tvs : new_det_ctx[k] # old_det_ctx[j]

\* phase 6 has destroyed the old contexts of two detect workers
C18_Witness ==
    /\ rpc = "r_prune" /\ threads_ret = 1 /\ no_of_detect_tvs >= 2
    /\ \A k \in 1..no_of_detect_tvs : ctx_state[old_det_ctx[k]] = "free"

\* C19 as stated: when DetectEngineReloadThreads failed to build a thread
\* context (it returned -1 with no shutdown requested), the head of the
\* active list after DetectEngineReload is the engine context that was
\* current before it.
C19_KeepsPrevious ==
    (rpc = "r_ret" /\ threads_ret = -1 /\ suricata_ctl_flags = 0) =>
        list = g.old

\* a step of DetectEngineReload before the new engine context is added
C20_EarlyStep ==
    (rpc \in {"idle", "r_init"} /\ rpc' \in {"r_init", "r_ret"}) =>
        /\ <<list', free_list', next', de_state'>> =
              <<list, free_list, next, de_state>>
        /\ rpc' = "r_ret" => reload_ret' = -1

\* C20: a DetectEngineReload that fails before DetectEngineAddToMaster
\* returns -1, has changed neither list on its way, and leaves the ref_cnt
\* of the engine context it got from DetectEngineGetCurrent at its value
\* before the call.
C20_EarlyFailure ==
    /\ []((rpc = "r_ret" /\ reload_ret = -1 /\ g.old # NULL) =>
             /\ ref_cnt[g.old] = g.ref0
             /\ list = g.old)
    /\ [][C20_EarlyStep]_vars

\* the initialisation of the new engine context failed while the detect
\* workers held two references on the current one
C20_Witness ==
    /\ rpc = "r_ret" /\ reload_ret = -1
    /\ g.old # NULL /\ g.ref0 >= 2 /\ ref_cnt[g.old] = g.ref0

\* C21: when DetectEngineReload has returned after DetectEngineReloadThreads
\* returned -1 (a build failure or a shutdown), its return value is -1.
C21_ThreadsErrorReturned ==
    (rpc = "r_ret" /\ threads_ret = -1) => reload_ret = -1

\* the new contexts DetectEngineReloadThreads built that no detect slot holds
Unpublished ==
    {k \in 1..NWorkers : new_det_ctx[k] # NULL
                         /\ slot_data[detect_tvs[k]] # new_det_ctx[k]}

\* C22: when DetectEngineReloadThreads has returned -1 with the shutdown
\* flag set, every new thread context that is in no slot has been destroyed
\* and the slot of its thread holds the old context, which is alive.
C22_ShutdownCleansUp ==
    (rpc = "r_prune" /\ threads_ret = -1 /\ suricata_ctl_flags # 0) =>
        \A k \in Unpublished :
            /\ ctx_state[new_det_ctx[k]] = "free"
            /\ slot_data[detect_tvs[k]] = old_det_ctx[k]
            /\ ctx_state[old_det_ctx[k]] = "live"

\* the adoption loop was left before every new context was seen in use
LeftEarly ==
    \E k \in 1..no_of_detect_tvs : ctx_used[new_det_ctx[k]] = 0

\* C23: when the adoption loop was left on shutdown, no old thread context
\* is destroyed while the control thread waits in phase 5, and phase 6 is
\* reached only once every detect worker has set THV_RUNNING_DONE.
C23_WaitsForRunningDone ==
    /\ rpc = "t_waitdone" =>
          \A k \in 1..no_of_detect_tvs : ctx_state[old_det_ctx[k]] = "live"
    /\ (rpc = "t_free" /\ LeftEarly) =>
          \A w \in Workers : tm_detect[w] => running_done[w]

\* phase 6 has destroyed an old context after a shutdown in the adoption
\* loop, with a new context that no worker ever used
C23_Witness ==
    /\ rpc = "t_free" /\ i >= 1 /\ LeftEarly
    /\ suricata_ctl_flags # 0
    /\ ctx_state[old_det_ctx[1]] = "free"

\* DetectEngineReloadThreads has returned -1 from its error label
ErrorReturned ==
    rpc = "r_prune" /\ threads_ret = -1 /\ tv_root_lock = 0

\* C24: after a failure in phase 2 every new context built so far is
\* destroyed, every detect slot holds a live context of another engine than
\* the new one, the captured old contexts are alive and in their slots, and
\* the new engine has the reference count it had before phase 2, which is 0.
C24_BuildFailure ==
    /\ rpc = "t_count" => ref_cnt[new_de_ctx] = 0
    /\ ErrorReturned =>
          /\ \A k \in 1..NWorkers :
                new_det_ctx[k] # NULL => ctx_state[new_det_ctx[k]] = "free"
          /\ \A k \in 1..NWorkers : detect_tvs[k] # NULL =>
                /\ slot_data[detect_tvs[k]] = old_det_ctx[k]
                /\ ctx_state[old_det_ctx[k]] = "live"
          /\ \A w \in DetectTvs :
                /\ ctx_state[slot_data[w]] = "live"
                /\ ctx_de[slot_data[w]] # new_de_ctx
          /\ ref_cnt[new_de_ctx] = 0

\* the build of the second context failed without a shutdown, after the
\* first was built
C24_Witness ==
    /\ ErrorReturned /\ suricata_ctl_flags = 0
    /\ new_det_ctx[1] # NULL /\ new_det_ctx[2] = NULL /\ detect_tvs[2] # NULL

(***************************************************************************)
(* The reload under fair scheduling: the control thread keeps running      *)
(* once DetectEngineReload is called, a worker whose input queue holds a   *)
(* packet wakes and takes it, and a worker that took a packet runs the     *)
(* detect module on it.  A worker with an empty queue may stay blocked.    *)
(***************************************************************************)
ControlStep ==
    \/ ReloadInit
    \/ ReloadAddToMaster
    \/ ReloadMoveToFreeList
    \/ ReloadDeReference
    \/ ThreadsCount
    \/ ThreadsBuild
    \/ ThreadsError
    \/ ThreadsPublish
    \/ ThreadsAdopt
    \/ ThreadsWaitDone
    \/ ThreadsFree
    \/ ReloadPrune
    \/ ReloadReturn

Fairness ==
    /\ WF_vars(ControlStep)
    /\ \A w \in Workers : WF_vars(w \in inq /\ WorkerLoad(w))
    /\ \A w \in Workers : WF_vars(WorkerDetect(w))

SpecLive == Init /\ [][Next]_vars /\ Fairness

\* C25: without a shutdown and without a fatal error, once the new contexts
\* are published and the adoption loop runs, DetectEngineReloadThreads
\* eventually returns 1.
C25_AdoptionAcknowledged ==
    [](suricata_ctl_flags = 0 /\ ~aborted) =>
        ((rpc = "t_adopt") ~> (rpc = "r_prune" /\ threads_ret = 1))

(***************************************************************************)
(* Properties of the table of app inspection engines, checked under        *)
(* SpecRegister.                                                           *)
(***************************************************************************)
\* the chain a call with arguments a looks at
ChainOf(a) == ChainAt(app_inspection_engine, Cell(a))

\* C26: while every registration has returned, no chain of the table holds
\* two entries with the same sm_list or two entries with the same
\* inspect_flags.
C26_ChainsUnique ==
    exited = "no" =>
        \A c \in Cells :
            LET chain == ChainAt(app_inspection_engine, c) IN
            \A j, k \in 1..Len(chain) : j # k =>
                /\ chain[j].sm_list # chain[k].sm_list
                /\ chain[j].inspect_flags # chain[k].inspect_flags

\* two calls have returned and the second added a second entry to a chain
C26_Witness ==
    /\ exited = "no" /\ nregs = 2 /\ reg_ret = "added"
    /\ Len(ChainOf(reg_arg)) = 2

\* the chain holds an entry with the sm_list and the Callback of a
SameEngine(a) ==
    \E k \in 1..Len(ChainOf(a)) :
        /\ ChainOf(a)[k].sm_list = a.sm_list
        /\ ChainOf(a)[k].Callback = a.Callback

\* the chain holds an entry with the sm_list or the inspect_flags of a
SharesValue(a) ==
    \E k \in 1..Len(ChainOf(a)) :
        \/ ChainOf(a)[k].sm_list = a.sm_list
        \/ ChainOf(a)[k].inspect_flags = a.inspect_flags

\* C27 (reg_arg holds the arguments of the call a step makes): a call
\* with valid arguments whose chain holds an entry with the same sm_list
\* and the same Callback returns and leaves the table as it was, whatever
\* its inspect_flags.
C27_Idempotent ==
    [][LET a == reg_arg' IN
          (/\ DetectEngineRegisterAppInspectionEngine(TRUE, a)
           /\ a \in ValidArgs /\ SameEngine(a))
              => /\ exited' = "no"
                 /\ app_inspection_engine' = app_inspection_engine]_vars

\* a call returned at the entry with its sm_list and Callback, whose
\* inspect_flags are not those of the call
C27_Witness ==
    /\ exited = "no" /\ reg_ret = "found"
    /\ \E k \in 1..Len(ChainOf(reg_arg)) :
          /\ ChainOf(reg_arg)[k].sm_list = reg_arg.sm_list
          /\ ChainOf(reg_arg)[k].Callback = reg_arg.Callback
          /\ ChainOf(reg_arg)[k].inspect_flags # reg_arg.inspect_flags

\* C28: a call with valid arguments whose chain holds an entry with the
\* same sm_list or the same inspect_flags, and none with the same sm_list
\* and Callback, ends the process and leaves the table as it was; a call
\* that changes the table found neither value in the chain.
C28_DuplicateIsFatal ==
    [][LET a == reg_arg' IN
          (DetectEngineRegisterAppInspectionEngine(TRUE, a) /\ a \in ValidArgs)
              => /\ (SharesValue(a) /\ ~SameEngine(a)) =>
                       /\ exited' \in {"duplicate", "nomem"}
                       /\ app_inspection_engine' = app_inspection_engine
                 /\ app_inspection_engine' # app_inspection_engine =>
                       ~SharesValue(a)]_vars

\* the second call ended in AppendAppInspectionEngine's exit(): its chain
\* holds an entry with its inspect_flags and another sm_list
C28_Witness ==
    /\ exited = "duplicate" /\ nregs = 2
    /\ \E k \in 1..Len(ChainOf(reg_arg)) :
          /\ ChainOf(reg_arg)[k].inspect_flags = reg_arg.inspect_flags
          /\ ChainOf(reg_arg)[k].sm_list # reg_arg.sm_list

\* C29: a call that changes the table appends an entry with exactly its
\* arguments after the last entry of the chain at
\* [FlowGetProtoMapping(ipproto)][alproto][dir] and changes no other cell.
C29_AppendsAtTail ==
    [][LET a == reg_arg' IN
          (/\ DetectEngineRegisterAppInspectionEngine(TRUE, a)
           /\ app_inspection_engine' # app_inspection_engine)
              => /\ ChainAt(app_inspection_engine', Cell(a))
                       = Append(ChainOf(a), a)
                 /\ \A c \in Cells \ {Cell(a)} :
                       ChainAt(app_inspection_engine', c)
                           = ChainAt(app_inspection_engine, c)]_vars

\* a call added an entry behind another one while the chain of the other
\* direction held an entry
C29_Witness ==
    /\ exited = "no" /\ reg_ret = "added"
    /\ Len(ChainOf(reg_arg)) >= 2
    /\ ChainOf(reg_arg)[Len(ChainOf(reg_arg))] = reg_arg
    /\ ChainOf(reg_arg)[1] # reg_arg
    /\ Len(ChainOf([reg_arg EXCEPT !.dir = 1 - reg_arg.dir])) >= 1

\* C30: after DetectEngineRegisterAppInspectionEngines on the empty table
\* the chain of (TCP, Modbus, to-client) holds the modbus-match engine.
C30_ModbusToClient ==
    reg_ret = "builtins" =>
        LET chain == ChainAt(app_inspection_engine,
                             <<FlowGetProtoMapping("IPPROTO_TCP"),
                               AppProto("ALPROTO_MODBUS"), 1>>)
        IN \E k \in 1..Len(chain) :
              /\ chain[k].sm_list = SmList("DETECT_SM_LIST_MODBUS_MATCH")
              /\ chain[k].Callback = "DetectEngineInspectModbus"


(***************************************************************************)
(* The table the start-up registration leaves, checked under SpecRegister. *)
(***************************************************************************)
\* the sm_list values of the chain [ipproto][alproto][dir], head first
ListsOf(tab, ipproto, alproto, dir) ==
    LET chain == ChainAt(tab, <<FlowGetProtoMapping(ipproto),
                                AppProto(alproto), dir>>)
    IN [k \in 1..Len(chain) |-> SmListNames[chain[k].sm_list + 1]]

\* the chains claim C31 lists
BuiltinChains(tab) ==
    /\ ListsOf(tab, "IPPROTO_TCP", "ALPROTO_HTTP", 0) =
          <<"DETECT_SM_LIST_UMATCH", "DETECT_SM_LIST_HRLMATCH",
            "DETECT_SM_LIST_HCBDMATCH", "DETECT_SM_LIST_HHDMATCH",
            "DETECT_SM_LIST_HRHDMATCH", "DETECT_SM_LIST_HMDMATCH",
            "DETECT_SM_LIST_HCDMATCH", "DETECT_SM_LIST_HRUDMATCH",
            "DETECT_SM_LIST_FILEMATCH", "DETECT_SM_LIST_HUADMATCH",
            "DETECT_SM_LIST_HHHDMATCH", "DETECT_SM_LIST_HRHHDMATCH">>
    /\ ListsOf(tab, "IPPROTO_TCP", "ALPROTO_HTTP", 1) =
          <<"DETECT_SM_LIST_FILEDATA", "DETECT_SM_LIST_HHDMATCH",
            "DETECT_SM_LIST_HRHDMATCH", "DETECT_SM_LIST_HCDMATCH",
            "DETECT_SM_LIST_FILEMATCH", "DETECT_SM_LIST_HSMDMATCH",
            "DETECT_SM_LIST_HSCDMATCH">>
    /\ ListsOf(tab, "IPPROTO_TCP", "ALPROTO_DNS", 0) =
          <<"DETECT_SM_LIST_DNSQUERY_MATCH">>
    /\ ListsOf(tab, "IPPROTO_UDP", "ALPROTO_DNS", 0) =
          <<"DETECT_SM_LIST_DNSQUERY_MATCH">>
    /\ ListsOf(tab, "IPPROTO_TCP", "ALPROTO_SMTP", 0) =
          <<"DETECT_SM_LIST_FILEMATCH", "DETECT_SM_LIST_FILEDATA">>
    /\ ListsOf(tab, "IPPROTO_TCP", "ALPROTO_MODBUS", 0) =
          <<"DETECT_SM_LIST_MODBUS_MATCH">>

\* C31: DetectEngineRegisterAppInspectionEngines on the empty table never
\* ends in the exit() of a rejected or clashing registration, and when it
\* returns the table holds the twelve to-server and the seven to-client
\* HTTP engines in the order of the initialisers, one DNS query engine for
\* TCP and one for UDP, the SMTP file engine before the SMTP filedata
\* engine, and the Modbus engine in the to-server chain.
C31_BuiltinTable ==
    [][DetectEngineRegisterAppInspectionEngines =>
          /\ app_inspection_engine = EmptyTable
          /\ exited' \notin {"invalid", "duplicate"}
          /\ exited' = "no" => BuiltinChains(app_inspection_engine')]_vars

C31_Witness ==
    /\ reg_ret = "builtins" /\ exited = "no" /\ nregs = 0
    /\ Len(ChainAt(app_inspection_engine,
                   <<"FLOW_PROTO_TCP", AppProto("ALPROTO_HTTP"), 0>>)) = 12
    /\ Len(ChainAt(app_inspection_engine,
                   <<"FLOW_PROTO_TCP", AppProto("ALPROTO_HTTP"), 1>>)) = 7


(***************************************************************************)
(* Properties of the thread keyword registry and of the keyword array of   *)
(* a thread context, checked under SpecKeyword.                            *)
(***************************************************************************)
\* a call of DetectRegisterThreadCtxFuncs that got past the BUG_ON
C32_RegisterStep ==
    /\ <<keyword_list, keyword_id, kw_arg, kw_ret>>' #
          <<keyword_list, keyword_id, kw_arg, kw_ret>>
    /\ ~aborted'

C33_GetInRange ==
    [][<<get_arg, get_ret, get_idx>>' # <<get_arg, get_ret, get_idx>> =>
          LET id == get_arg' IN
          /\ get_idx' < keyword_ctxs_size
          /\ IF id \in 0..(keyword_ctxs_size - 1) /\ keyword_ctxs_array # <<>>
             THEN get_ret' = keyword_ctxs_array[id + 1]
             ELSE get_ret' = NULL]_vars


\* C34: when the InitFunc of a registered keyword returns NULL while a
\* thread context is initialised, the initialisation fails:
\* DetectEngineThreadCtxInit does not return TM_ECODE_OK and
\* DetectEngineThreadCtxInitForReload does not return the context, so the
\* reload has no such context to store into a detect slot.
C34_KeywordInitFails ==
    h_init_null => init_ret \notin {"TM_ECODE_OK", "det_ctx"}


(***************************************************************************)
(* DetectEngineReloadSetDone, checked under SpecLatch.                     *)
(***************************************************************************)
\* C35: DetectEngineReloadSetDone leaves the latch in DONE whatever state
\* it was called in (IDLE, RELOAD or DONE), and it has no result that could
\* report a failure.
C35_SetDoneUnconditional ==
    [][\A t \in LThreads : Completes(t, "SetDone") =>
          /\ sync_state' = DONE
          /\ lret'[t] = lret[t]]_vars

\* one call has set DONE on an idle latch, another was made in DONE
C35_Witness ==
    \E t1, t2 \in LThreads :
        /\ t1 # t2 /\ sync_state = DONE
        /\ lpc[t1] = "out" /\ lop[t1] = "SetDone" /\ lpre[t1] = IDLE
        /\ lpc[t2] = "out" /\ lop[t2] = "SetDone" /\ lpre[t2] = DONE


(***************************************************************************)
(* Properties of the configuration of an engine context, checked under     *)
(* SpecConf.                                                               *)
(***************************************************************************)
\* C36: the inspection_recursion_limit of a fully built engine context is
\* 3000 when the key is absent, -1 when the value is 0 and n when the value
\* is the base-10 text of a non-zero integer n; it is never 0.
C36_RecursionLimit ==
    de_cfg.state = "built" =>
        /\ conf.limit = <<>> => de_cfg.inspection_recursion_limit = 3000
        /\ \A n \in -5..10 \cup {3000} :
              conf.limit = <<Decimal(n)>> =>
                  de_cfg.inspection_recursion_limit = IF n = 0 THEN -1 ELSE n
        /\ de_cfg.inspection_recursion_limit # 0

\* a built engine context for the value 0, which is stored as -1
C36_Witness ==
    /\ de_cfg.state = "built"
    /\ conf.limit = << <<"0">> >>
    /\ de_cfg.inspection_recursion_limit = -1

\* the value of a text that is an unsigned 16-bit number in base 10
C37_Uint16(str) ==
    IF \E n \in {0, 65535} \cup 20..27 : str = Decimal(n)
    THEN {CHOOSE n \in {0, 65535} \cup 20..27 : str = Decimal(n)}
    ELSE {}

\* C37: the eight group limits of a built engine context are 2,2,2,3,2,2,2,3
\* for the profile low, 15,15,15,20,15,15,15,40 for high, 4,4,4,6,4,8,4,30
\* for medium, no profile or an unknown one, and for custom field by field
\* the configured value when it is present and an unsigned 16-bit number in
\* base 10, and the medium value of the field otherwise.
C37_GroupLimits ==
    de_cfg.state = "built" =>
        LET medium == <<4, 4, 4, 6, 4, 8, 4, 30>> IN
        de_cfg.max_uniq_groups =
            IF conf.profile = <<"low">> THEN <<2, 2, 2, 3, 2, 2, 2, 3>>
            ELSE IF conf.profile = <<"high">>
            THEN <<15, 15, 15, 20, 15, 15, 15, 40>>
            ELSE IF conf.profile = <<"custom">>
            THEN [k \in 1..8 |->
                     IF conf.custom[k] # <<>> /\ C37_Uint16(conf.custom[k][1]) # {}
                     THEN CHOOSE n \in C37_Uint16(conf.custom[k][1]) : TRUE
                     ELSE medium[k]]
            ELSE medium

\* a custom profile with a field that is not a number, a field that is
\* absent and the other fields 21..26
C37_Witness ==
    /\ de_cfg.state = "built"
    /\ conf.profile = <<"custom">>
    /\ conf.custom[1] = << <<"B", "A">> >>
    /\ conf.custom[8] = <<>>
    /\ de_cfg.max_uniq_groups = <<4, 21, 22, 23, 24, 25, 26, 30>>


(***************************************************************************)
(* The active list and the thread-list lock during a reload, checked       *)
(* under Spec.                                                             *)
(***************************************************************************)
\* C38: from the DetectEngineGetCurrent of a reload that found an engine
\* context until the reload returns, the active list is not empty and its
\* head is the old or the new engine context, so DetectEngineGetCurrent
\* returns one of the two and DetectEngineEnabled returns 1.
C38_ActiveListNeverEmpty ==
    (rpc # "idle" /\ g.old # NULL) =>
        /\ list # NULL
        /\ list \in {g.old, new_de_ctx}

\* the old engine context is on the free list and the new one is the head
C38_Witness ==
    /\ rpc = "r_deref" /\ g.old # NULL
    /\ list = new_de_ctx /\ next[list] = NULL
    /\ free_list = g.old

\* C39: whenever DetectEngineReloadThreads has returned (DetectEngineReload
\* is at its DetectEnginePruneFreeList call, with the return value 0, 1 or
\* -1), tv_root_lock is not held.
C39_LockReleasedOnReturn ==
    rpc = "r_prune" => tv_root_lock = 0

(***************************************************************************)
(* Reference accounting, checked under SpecCallers: cown[t] is the engine  *)
(* context thread t received from DetectEngineGetCurrent (the de_ctx of    *)
(* the thread context it initialises, 1327) or DetectEngineReference and   *)
(* has not released.                                                       *)
(***************************************************************************)
\* the threads that hold engine context s
HoldersOf(s) == {t \in Callers : cown[t] = s}

\* C40: when no call is in progress, the ref_cnt of every engine context
\* equals the number of holders of that engine context: each thread context
\* or other holder counts once on the engine context it is bound to, from
\* the call that took the reference until the call that releases it.
C40_ReferenceAccounting ==
    (\A t \in Callers : cpc[t] = "out") =>
        \A s \in Snap : ref_cnt[s] = Cardinality(HoldersOf(s))

=============================================================================
